---- MODULE Spec2Model ----
(***************************************************************************)
(* Verification model of the neo-go node core.                             *)
(*                                                                         *)
(* Part 1: the memory pool (package mempool): item.CompareTo, Pool.Add,    *)
(* Pool.Remove, Pool.RemoveStale and the read accessors.                   *)
(* Part 2: the pool's lock, the VM execution Context, storage.MemoryStore, *)
(* dao.IsDoubleSpend, the storage Find iterator, Transaction hashes and    *)
(* contractUpdate.  Every part has a specification of its own; the         *)
(* variables of the other parts are pinned while it runs.                  *)
(***************************************************************************)
EXTENDS Integers, Sequences, FiniteSets, Bags, TLC

(***************************************************************************)
(* Bounds of the model.                                                    *)
(***************************************************************************)
\* number of distinct transactions offered to the pool
NumTx == 5
\* largest capacity handed to NewMemPool
MaxCapacity == 2
\* largest transaction hash of the comparison universe
MaxHash == 2
\* largest fee value of the comparison universe
MaxFee == 1

VARIABLES
    \* ---- Pool (mempool.Pool) ----
    verifiedMap,        \* map[util.Uint256]*item
    verifiedTxes,       \* items, kept sorted from max to min
    capacity,           \* int
    mempoolUnsortedTx,  \* the gauge updateMempoolMetrics sets
    \* ---- observation of the last pool call ----
    last,               \* the call, its argument, its result, the state before it
    added,              \* hashes handed to Add while the run is an add-only run
    addOnly,            \* only Adds of distinct, mutually non-conflicting txs so far
    \* ---- one evaluation of item.CompareTo ----
    cmpP, cmpOther, cmpRes, cmpDone,
    \* ---- part 2, one record per component ----
    lk,                 \* the pool's sync.RWMutex and the goroutines calling the pool
    vmc,                \* a vm.Context and the last read made on it
    mst,                \* a storage.MemoryStore, the store under it, the last call
    dsp,                \* one evaluation of dao.IsDoubleSpend
    fnd,                \* one storage Find iterator
    txo,                \* one transaction.Transaction and its memoized hashes
    cst,                \* the contract part of the DAO and the last contractUpdate
    nat,                \* native.Contracts, its cached persist script, the last persisted block
    inv,                \* one invocation of a native method under a gas limit
    ldb,                \* a LevelDBStore, its context and its shutdown goroutine
    dcl,                \* one evaluation of dao.IsDoubleClaim
    mcs,                \* a MemoryStore's RWMutex and the goroutines calling the store
    dec,                \* one Transaction.DecodeBinary of a byte stream
    dsg,                \* the Designate native contract: storage, cache, persisting block
    srv,                \* a network Server, one peer and the last message handled
    cns,                \* the Server's consensus start flag and the handlers racing for it
    brd                 \* a BinReader over a byte stream

poolVars == <<verifiedMap, verifiedTxes, capacity, mempoolUnsortedTx, last, added, addOnly>>
cmpVars == <<cmpP, cmpOther, cmpRes, cmpDone>>
laterVars == <<lk, vmc, mst, dsp, fnd, txo, cst, nat, inv, ldb, dcl, mcs,
               dec, dsg, srv, cns, brd>>
vars == <<verifiedMap, verifiedTxes, capacity, mempoolUnsortedTx, last, added, addOnly,
          cmpP, cmpOther, cmpRes, cmpDone, lk, vmc, mst, dsp, fnd, txo, cst,
          nat, inv, ldb, dcl, mcs, dec, dsg, srv, cns, brd>>

\* the value of a component's variable in the specifications of the others
Idle == "idle"
LkIdle == lk = Idle
VmcIdle == vmc = Idle
MstIdle == mst = Idle
DspIdle == dsp = Idle
FndIdle == fnd = Idle
TxoIdle == txo = Idle
CstIdle == cst = Idle
NatIdle == nat = Idle
InvIdle == inv = Idle
LdbIdle == ldb = Idle
DclIdle == dcl = Idle
McsIdle == mcs = Idle
DecIdle == dec = Idle
DsgIdle == dsg = Idle
SrvIdle == srv = Idle
CnsIdle == cns = Idle
BrdIdle == brd = Idle
Part2Idle == LkIdle /\ VmcIdle /\ MstIdle /\ DspIdle /\ FndIdle /\ TxoIdle /\ CstIdle
Part3Idle == NatIdle /\ InvIdle /\ LdbIdle /\ DclIdle /\ McsIdle
Part4Idle == DecIdle /\ DsgIdle /\ SrvIdle /\ CnsIdle /\ BrdIdle
LaterIdle == Part2Idle /\ Part3Idle /\ Part4Idle

(***************************************************************************)
(* Transactions.                                                           *)
(***************************************************************************)
ClaimType == "ClaimType"
ContractType == "ContractType"

\* transaction.Input: a value type, compared with == field by field
Input(prevHash, prevIndex) == [PrevHash |-> prevHash, PrevIndex |-> prevIndex]

\* The transactions offered to the pool.  Each row is (Type, Inputs, network
\* fee, fee per byte); the hash of transaction h is h itself.
TxTable ==
    << [Type |-> ContractType, Inputs |-> <<Input(9, 0)>>,              net |-> 1, perByte |-> 1],
       [Type |-> ClaimType,    Inputs |-> <<Input(9, 0), Input(9, 1)>>, net |-> 0, perByte |-> 0],
       [Type |-> ContractType, Inputs |-> <<>>,                         net |-> 2, perByte |-> 1],
       [Type |-> ContractType, Inputs |-> <<Input(9, 1)>>,              net |-> 2, perByte |-> 1],
       [Type |-> ContractType, Inputs |-> <<>>,                         net |-> 3, perByte |-> 0] >>

Row(h) == TxTable[((h - 1) % Len(TxTable)) + 1]

Hashes == 1..NumTx

\* *transaction.Transaction with hash h
Tx(h) == [Hash |-> h, Type |-> Row(h).Type, Inputs |-> Row(h).Inputs]

\* Feer: the fee policy handed to Add (the blockchain).
LowPriorityThreshold == 2
FeePerByte(t) == Row(t.Hash).perByte
NetworkFee(t) == Row(t.Hash).net
IsLowPriority(netFee) == netFee < LowPriorityThreshold

(***************************************************************************)
(* item and item.CompareTo                                                 *)
(***************************************************************************)
NilItem == [isNil |-> TRUE]

\* util.Fixed8.CompareTo: the difference of the two values
Fixed8CompareTo(f, g) == f - g

\* util.Uint256.CompareTo: bytes.Compare of the two hashes
Uint256CompareTo(u, other) == IF u < other THEN -1 ELSE IF u > other THEN 1 ELSE 0

\* the mutant breaks fee ties by the higher hash
CompareToHashAscending(p, otherP) ==
    IF otherP = NilItem THEN 1
    ELSE IF ~p.isLowPrio /\ otherP.isLowPrio THEN 1
    ELSE IF p.isLowPrio /\ ~otherP.isLowPrio THEN -1
    ELSE LET thisIsClaimTx == p.txn.Type = ClaimType
             otherIsClaimTx == otherP.txn.Type = ClaimType
         IN IF p.isLowPrio /\ otherP.isLowPrio /\ thisIsClaimTx # otherIsClaimTx
            THEN (IF thisIsClaimTx THEN 1 ELSE -1)
            ELSE IF Fixed8CompareTo(p.perByteFee, otherP.perByteFee) # 0
                 THEN Fixed8CompareTo(p.perByteFee, otherP.perByteFee)
            ELSE IF Fixed8CompareTo(p.netFee, otherP.netFee) # 0
                 THEN Fixed8CompareTo(p.netFee, otherP.netFee)
            ELSE Uint256CompareTo(p.txn.Hash, otherP.txn.Hash)

\* the mutant never looks at the hashes
CompareToFeesOnly(p, otherP) ==
    IF otherP = NilItem THEN 1
    ELSE IF ~p.isLowPrio /\ otherP.isLowPrio THEN 1
    ELSE IF p.isLowPrio /\ ~otherP.isLowPrio THEN -1
    ELSE LET thisIsClaimTx == p.txn.Type = ClaimType
             otherIsClaimTx == otherP.txn.Type = ClaimType
         IN IF p.isLowPrio /\ otherP.isLowPrio /\ thisIsClaimTx # otherIsClaimTx
            THEN (IF thisIsClaimTx THEN 1 ELSE -1)
            ELSE IF Fixed8CompareTo(p.perByteFee, otherP.perByteFee) # 0
                 THEN Fixed8CompareTo(p.perByteFee, otherP.perByteFee)
            ELSE Fixed8CompareTo(p.netFee, otherP.netFee)

CompareTo(p, otherP) ==
    IF otherP = NilItem THEN 1
    ELSE IF ~p.isLowPrio /\ otherP.isLowPrio THEN 1
    ELSE IF p.isLowPrio /\ ~otherP.isLowPrio THEN -1
    ELSE LET thisIsClaimTx == p.txn.Type = ClaimType
             otherIsClaimTx == otherP.txn.Type = ClaimType
         IN IF p.isLowPrio /\ otherP.isLowPrio /\ thisIsClaimTx # otherIsClaimTx
            THEN (IF thisIsClaimTx THEN 1 ELSE -1)
            ELSE IF Fixed8CompareTo(p.perByteFee, otherP.perByteFee) # 0
                 THEN Fixed8CompareTo(p.perByteFee, otherP.perByteFee)
            ELSE IF Fixed8CompareTo(p.netFee, otherP.netFee) # 0
                 THEN Fixed8CompareTo(p.netFee, otherP.netFee)
            ELSE Uint256CompareTo(otherP.txn.Hash, p.txn.Hash)

(***************************************************************************)
(* Pool                                                                    *)
(***************************************************************************)
ErrNil == "nil"
ErrConflict == "ErrConflict"
ErrDup == "ErrDup"
ErrOOM == "ErrOOM"

\* the item Add builds for transaction t (the clock reading is not modelled:
\* no code of the pool reads timeStamp)
NewItem(t) ==
    [txn |-> t, timeStamp |-> 0, perByteFee |-> FeePerByte(t),
     netFee |-> NetworkFee(t), isLowPrio |-> IsLowPriority(NetworkFee(t))]

\* map helpers: delete(m, k) and m[k] = v
MapDelete(m, k) == [x \in (DOMAIN m) \ {k} |-> m[x]]
MapPut(m, k, v) == [x \in (DOMAIN m) \cup {k} |-> IF x = k THEN v ELSE m[x]]

count(txes) == Len(txes)

containsKey(map, hash) == hash \in DOMAIN map

\* the mutant checks only the first input of tx against the pool
verifyInputsFirstOnly(txes, tx) ==
    IF Len(tx.Inputs) = 0 THEN TRUE
    ELSE ~ \E num \in 1..Len(txes) :
             \E i \in 1..Len(txes[num].txn.Inputs) :
                txes[num].txn.Inputs[i] = tx.Inputs[1]

verifyInputs(txes, tx) ==
    IF Len(tx.Inputs) = 0 THEN TRUE
    ELSE ~ \E num \in 1..Len(txes) :
             \E i \in 1..Len(txes[num].txn.Inputs) :
                \E j \in 1..Len(tx.Inputs) :
                   txes[num].txn.Inputs[i] = tx.Inputs[j]

\* sort.Search(n, f): binary search for the smallest index in [0, n) at which
\* f is true (n if there is none); indices are 0-based as in the code
RECURSIVE SortSearchLoop(_, _, _, _)
SortSearchLoop(i, j, txes, pItem) ==
    IF i < j
    THEN LET h == (i + j) \div 2
         IN IF ~(CompareTo(pItem, txes[h + 1]) > 0)
            THEN SortSearchLoop(h + 1, j, txes, pItem)
            ELSE SortSearchLoop(i, h, txes, pItem)
    ELSE i

SortSearch(txes, pItem) == SortSearchLoop(0, Len(txes), txes, pItem)

\* the mutant overwrites the slot at n instead of ditching the last item
AddTxesOverwrite(txes, pItem, n, cap) ==
    IF Len(txes) = cap
    THEN [i \in 1..Len(txes) |-> IF i - 1 = n THEN pItem ELSE txes[i]]
    ELSE LET t1 == Append(txes, pItem)
         IN IF n # Len(t1) - 1
            THEN [i \in 1..Len(t1) |->
                     IF i - 1 < n THEN t1[i] ELSE IF i - 1 = n THEN pItem ELSE t1[i - 1]]
            ELSE t1

\* the mutant appends even when the pool is full
AddTxesAppend(txes, pItem, n, cap) ==
    LET t1 == Append(txes, pItem)
    IN IF n # Len(t1) - 1
       THEN [i \in 1..Len(t1) |->
                IF i - 1 < n THEN t1[i] ELSE IF i - 1 = n THEN pItem ELSE t1[i - 1]]
       ELSE t1

\* lines 154-171 of Add once the item is known to fit: put pItem in the last
\* slot (replacing the unlucky one when full), then shift it up to index n
AddTxes(txes, pItem, n, cap) ==
    LET t1 == IF Len(txes) = cap
              THEN [i \in 1..Len(txes) |-> IF i = Len(txes) THEN pItem ELSE txes[i]]
              ELSE Append(txes, pItem)
    IN IF n # Len(t1) - 1
       THEN [i \in 1..Len(t1) |->
                IF i - 1 < n THEN t1[i] ELSE IF i - 1 = n THEN pItem ELSE t1[i - 1]]
       ELSE t1

\* the read accessors
Count == count(verifiedTxes)
ContainsKey(hash) == containsKey(verifiedMap, hash)
TryGetValue(hash) == IF hash \in DOMAIN verifiedMap THEN verifiedMap[hash].txn ELSE NilItem
GetVerifiedTransactions == [i \in 1..Len(verifiedTxes) |-> verifiedTxes[i].txn]
Verify(tx) == verifyInputs(verifiedTxes, tx)

\* hashes of a list of items / of transactions
ItemHashes(txes) == {txes[i].txn.Hash : i \in 1..Len(txes)}
PooledHashes == {GetVerifiedTransactions[i].Hash : i \in 1..Len(GetVerifiedTransactions)}

\* whether tx shares an input with a transaction of the set of hashes hs
SharesInput(a, b) ==
    \E i \in 1..Len(a.Inputs) : \E j \in 1..Len(b.Inputs) : a.Inputs[i] = b.Inputs[j]

Observed(op, h, res, calls, ok) ==
    [op |-> op, tx |-> h, res |-> res, preTxes |-> verifiedTxes,
     preMap |-> verifiedMap, calls |-> calls, ok |-> ok]

\* bookkeeping of add-only runs: the run stays add-only while every call is an
\* Add of a transaction not offered before that shares no input with the
\* transactions offered before
NoteAdd(h) ==
    IF addOnly /\ h \notin added /\ \A g \in added : ~SharesInput(Tx(h), Tx(g))
    THEN addOnly' = TRUE /\ added' = added \cup {h}
    ELSE addOnly' = FALSE /\ added' = {}

NoteOther == addOnly' = FALSE /\ added' = {}

Add(h) ==
    LET t == Tx(h)
        pItem == NewItem(t)
    IN /\ NoteAdd(h)
       /\ UNCHANGED <<capacity, cmpVars, laterVars>>
       /\ IF ~verifyInputs(verifiedTxes, t)
          THEN /\ last' = Observed("Add", h, ErrConflict, <<>>, {})
               /\ UNCHANGED <<verifiedMap, verifiedTxes, mempoolUnsortedTx>>
          ELSE IF containsKey(verifiedMap, t.Hash)
          THEN /\ last' = Observed("Add", h, ErrDup, <<>>, {})
               /\ UNCHANGED <<verifiedMap, verifiedTxes, mempoolUnsortedTx>>
          ELSE LET map1 == MapPut(verifiedMap, t.Hash, pItem)
                   n == SortSearch(verifiedTxes, pItem)
               IN IF Len(verifiedTxes) = capacity /\ n = Len(verifiedTxes)
                  THEN /\ last' = Observed("Add", h, ErrOOM, <<>>, {})
                       /\ verifiedMap' = map1
                       /\ UNCHANGED <<verifiedTxes, mempoolUnsortedTx>>
                  ELSE /\ last' = Observed("Add", h, ErrNil, <<>>, {})
                       /\ verifiedMap' =
                             IF Len(verifiedTxes) = capacity
                             THEN MapDelete(map1, verifiedTxes[Len(verifiedTxes)].txn.Hash)
                             ELSE map1
                       /\ verifiedTxes' = AddTxes(verifiedTxes, pItem, n, capacity)
                       /\ mempoolUnsortedTx' = Len(verifiedTxes')

\* lines 182-193 of Remove: the loop declares its own num (num := range), so
\* the num the slicing below reads is the outer one, which stays 0
RemoveTxes(txes, hash) ==
    LET num == 0
    IN IF num < Len(txes) - 1
       THEN SubSeq(txes, 1, num) \o SubSeq(txes, num + 2, Len(txes))
       ELSE IF num = Len(txes) - 1
       THEN SubSeq(txes, 1, num)
       ELSE txes

Remove(hash) ==
    /\ NoteOther
    /\ UNCHANGED <<capacity, cmpVars, laterVars>>
    /\ last' = Observed("Remove", hash, ErrNil, <<>>, {})
    /\ IF hash \in DOMAIN verifiedMap
       THEN /\ verifiedMap' = MapDelete(verifiedMap, hash)
            /\ verifiedTxes' = RemoveTxes(verifiedTxes, hash)
       ELSE UNCHANGED <<verifiedMap, verifiedTxes>>
    /\ mempoolUnsortedTx' = Len(verifiedTxes')

\* the loop of RemoveStale over the old slice: acc is newVerifiedTxes
RECURSIVE StaleLoop(_, _, _)
StaleLoop(txes, ok, acc) ==
    IF txes = <<>> THEN acc
    ELSE StaleLoop(Tail(txes), ok,
                   IF Head(txes).txn.Hash \in ok THEN Append(acc, Head(txes)) ELSE acc)

\* the mutant stops filtering at the first item isOK rejects
RECURSIVE StaleLoopBreak(_, _, _)
StaleLoopBreak(txes, ok, acc) ==
    IF txes = <<>> THEN acc
    ELSE IF Head(txes).txn.Hash \in ok
    THEN StaleLoopBreak(Tail(txes), ok, Append(acc, Head(txes)))
    ELSE acc

StaleKeepBreak(txes, ok) == StaleLoopBreak(txes, ok, <<>>)

\* the slice RemoveStale builds: the items whose transaction isOK accepts
StaleKeep(txes, ok) == StaleLoop(txes, ok, <<>>)

RECURSIVE StaleMap(_, _, _)
StaleMap(map, txes, ok) ==
    IF txes = <<>> THEN map
    ELSE StaleMap(IF Head(txes).txn.Hash \in ok THEN map
                  ELSE MapDelete(map, Head(txes).txn.Hash),
                  Tail(txes), ok)

\* isOK is a predicate on transactions, given by the set ok of the hashes it
\* accepts; calls lists the transactions it was called with, in call order
RemoveStale(ok) ==
    /\ NoteOther
    /\ UNCHANGED <<capacity, cmpVars, laterVars, mempoolUnsortedTx>>
    /\ last' = Observed("RemoveStale", 0, ErrNil,
                        [i \in 1..Len(verifiedTxes) |-> verifiedTxes[i].txn.Hash],
                        ok \cap ItemHashes(verifiedTxes))
    /\ verifiedTxes' = StaleKeep(verifiedTxes, ok)
    /\ verifiedMap' = StaleMap(verifiedMap, verifiedTxes, ok)

NoCompare == cmpP = NilItem /\ cmpOther = NilItem /\ cmpRes = 0 /\ cmpDone = FALSE

\* NewMemPool(capacity)
PoolInit ==
    /\ capacity \in 0..MaxCapacity
    /\ verifiedMap = <<>>
    /\ verifiedTxes = <<>>
    /\ mempoolUnsortedTx = 0
    /\ last = [op |-> "NewMemPool", tx |-> 0, res |-> ErrNil, preTxes |-> <<>>,
               preMap |-> <<>>, calls |-> <<>>, ok |-> {}]
    /\ added = {}
    /\ addOnly = TRUE

MempoolInit == PoolInit /\ NoCompare /\ LaterIdle

MempoolNext ==
    \/ \E h \in Hashes : Add(h)
    \/ \E h \in Hashes : Remove(h)
    \/ \E ok \in SUBSET Hashes : RemoveStale(ok)

MempoolSpec == MempoolInit /\ [][MempoolNext]_vars

(***************************************************************************)
(* item.CompareTo on its own: every pair of items of a bounded universe    *)
(***************************************************************************)
TxUniverse ==
    [Hash : 1..MaxHash, Type : {ClaimType, ContractType},
     Inputs : {<<>>, <<Input(9, 0)>>}]

ItemUniverse ==
    [txn : TxUniverse, timeStamp : 0..1, perByteFee : 0..MaxFee,
     netFee : 0..MaxFee, isLowPrio : BOOLEAN]

\* the pool is not touched while items are compared
PoolIdle ==
    /\ capacity = 0
    /\ verifiedMap = <<>>
    /\ verifiedTxes = <<>>
    /\ mempoolUnsortedTx = 0
    /\ last = [op |-> "NewMemPool", tx |-> 0, res |-> ErrNil, preTxes |-> <<>>,
               preMap |-> <<>>, calls |-> <<>>, ok |-> {}]
    /\ added = {}
    /\ addOnly = TRUE

CompareInit ==
    /\ PoolIdle
    /\ LaterIdle
    /\ cmpP \in ItemUniverse
    /\ cmpOther \in ItemUniverse \cup {NilItem}
    /\ cmpRes = 0
    /\ cmpDone = FALSE

Compare ==
    /\ ~cmpDone
    /\ cmpRes' = CompareTo(cmpP, cmpOther)
    /\ cmpDone' = TRUE
    /\ UNCHANGED <<cmpP, cmpOther, poolVars, laterVars>>

CompareNext == Compare

CompareSpec == CompareInit /\ [][CompareNext]_vars

(***************************************************************************)
(* Properties of the memory pool                                           *)
(***************************************************************************)
\* the transaction and the item of the last Add
LastTx == Tx(last.tx)
LastItem == NewItem(Tx(last.tx))
PreHashes == ItemHashes(last.preTxes)
LastConflicts == \E i \in 1..Len(last.preTxes) : SharesInput(LastTx, last.preTxes[i].txn)

\* a outranks b under item.CompareTo
Outranks(a, b) == CompareTo(NewItem(Tx(a)), NewItem(Tx(b))) > 0
\* the hashes of S that fewer than c hashes of S outrank
TopRanked(S, c) == {h \in S : Cardinality({g \in S : Outranks(g, h)}) < c}

\* C1: from an empty pool of capacity C, once Add has been called for N > C
\* distinct, mutually non-conflicting transactions, GetVerifiedTransactions
\* holds exactly the C of them that rank highest under item.CompareTo.
C1_TopCapacityRetained ==
    (addOnly /\ Cardinality(added) > capacity)
        => /\ PooledHashes = TopRanked(added, capacity)
           /\ Len(GetVerifiedTransactions) = capacity

C1_Witness ==
    /\ addOnly /\ Cardinality(added) > capacity /\ capacity = MaxCapacity
    /\ last.op = "Add" /\ last.res = ErrNil /\ Len(last.preTxes) = capacity

\* C2: ContainsKey(h) is true exactly when a transaction with hash h is among
\* the transactions GetVerifiedTransactions returns.
C2_ContainsKeyIffPooled ==
    \A h \in Hashes : ContainsKey(h) <=> h \in PooledHashes

\* C3: an Add of a transaction sharing an input with a pooled transaction
\* returns ErrConflict and admits nothing, and no two pooled transactions
\* ever share an input.
C3_ConflictRejected ==
    /\ (last.op = "Add" /\ LastConflicts)
          => /\ last.res = ErrConflict
             /\ verifiedTxes = last.preTxes
             /\ verifiedMap = last.preMap
    /\ \A i, j \in 1..Len(verifiedTxes) :
          i # j => ~SharesInput(verifiedTxes[i].txn, verifiedTxes[j].txn)

C3_Witness ==
    /\ last.op = "Add" /\ last.res = ErrConflict
    /\ last.tx \notin PreHashes
    /\ LastConflicts

\* C4: Remove(h) of a pooled hash removes exactly that transaction and keeps
\* the others in their order; Remove(h) of a hash not pooled changes nothing.
\* (stated for calls made while the hash map and the list hold the same hashes)
C4_RemoveExactlyThat ==
    (last.op = "Remove" /\ DOMAIN last.preMap = PreHashes)
        => /\ verifiedTxes = SelectSeq(last.preTxes, LAMBDA itm : itm.txn.Hash # last.tx)
           /\ last.tx \notin PooledHashes

\* C5: Add of a transaction whose hash is already in the pool returns ErrDup,
\* whatever inputs the transaction has.
C5_DupReturnsErrDup ==
    (last.op = "Add" /\ last.tx \in PreHashes /\ last.tx \in DOMAIN last.preMap)
        => last.res = ErrDup

\* C6: for a transaction that neither conflicts with nor duplicates a pooled
\* one, Add returns ErrOOM exactly when the pool holds capacity-many
\* transactions and the new one ranks below every one of them.
C6_OOMIffFullAndLowest ==
    (last.op = "Add" /\ ~LastConflicts /\ last.tx \notin PreHashes)
        => (last.res = ErrOOM
              <=> /\ Len(last.preTxes) = capacity
                  /\ \A i \in 1..Len(last.preTxes) :
                        CompareTo(last.preTxes[i], LastItem) > 0)

\* C7: when the pool is full and the new transaction (no conflict, no
\* duplicate) ranks above a pooled one, Add returns nil, the new transaction
\* is pooled, exactly the lowest-ranked transaction is gone and Count is
\* still the capacity.
C7_FullPoolEvictsLowest ==
    (/\ last.op = "Add" /\ ~LastConflicts /\ last.tx \notin PreHashes
     /\ Len(last.preTxes) = capacity
     /\ \E i \in 1..Len(last.preTxes) : CompareTo(LastItem, last.preTxes[i]) > 0)
        => /\ last.res = ErrNil
           /\ last.tx \in PooledHashes
           /\ Count = capacity
           /\ SelectSeq(verifiedTxes, LAMBDA itm : itm.txn.Hash # last.tx)
                 = SubSeq(last.preTxes, 1, Len(last.preTxes) - 1)

\* C8: the list GetVerifiedTransactions returns is sorted in strictly
\* descending priority.
C8_StrictlyDescending ==
    \A i \in 1..(Len(verifiedTxes) - 1) :
        CompareTo(verifiedTxes[i], verifiedTxes[i + 1]) > 0

\* the sign of a comparison result
Sign(x) == IF x > 0 THEN 1 ELSE IF x < 0 THEN -1 ELSE 0

\* the order by fee per byte, then network fee, then lower hash
FeeOrder(a, b) ==
    IF a.perByteFee # b.perByteFee THEN (IF a.perByteFee > b.perByteFee THEN 1 ELSE -1)
    ELSE IF a.netFee # b.netFee THEN (IF a.netFee > b.netFee THEN 1 ELSE -1)
    ELSE IF a.txn.Hash # b.txn.Hash THEN (IF a.txn.Hash < b.txn.Hash THEN 1 ELSE -1)
    ELSE 0

\* the order as the specification words it
WordedOrder(a, b) ==
    IF a.isLowPrio # b.isLowPrio THEN (IF b.isLowPrio THEN 1 ELSE -1)
    ELSE FeeOrder(a, b)

\* the same with claim transactions ahead of the others in the low bucket
ClaimFirstOrder(a, b) ==
    IF a.isLowPrio # b.isLowPrio THEN (IF b.isLowPrio THEN 1 ELSE -1)
    ELSE IF a.isLowPrio /\ (a.txn.Type = ClaimType) # (b.txn.Type = ClaimType)
    THEN (IF a.txn.Type = ClaimType THEN 1 ELSE -1)
    ELSE FeeOrder(a, b)

\* C9 as worded: high priority above low priority, then higher fee per byte,
\* then higher network fee, then lower hash, and nothing else.
C9_OrderAsWorded ==
    (cmpDone /\ cmpOther # NilItem) => Sign(cmpRes) = WordedOrder(cmpP, cmpOther)

\* C9 amended: as worded, except that between two low-priority items a claim
\* transaction ranks above any other transaction, whatever the fees; inputs
\* and time stamp never matter.
C9_OrderClaimFirst ==
    (cmpDone /\ cmpOther # NilItem) => Sign(cmpRes) = ClaimFirstOrder(cmpP, cmpOther)

C9_Witness ==
    /\ cmpDone /\ cmpOther # NilItem
    /\ cmpP.isLowPrio /\ cmpOther.isLowPrio
    /\ cmpP.txn.Type = ClaimType /\ cmpOther.txn.Type # ClaimType
    /\ cmpP.perByteFee < cmpOther.perByteFee
    /\ cmpRes > 0

\* the positions of the old list whose transaction isOK accepted
KeptPositions == {i \in 1..Len(last.preTxes) : last.preTxes[i].txn.Hash \in last.ok}
\* the k-th of them
KeptPosition(k) ==
    CHOOSE i \in KeptPositions : Cardinality({j \in KeptPositions : j <= i}) = k

NumThreads == 3
Threads == 1..NumThreads

Writers == {"Add", "Remove", "RemoveStale"}
Readers == {"Count", "ContainsKey", "TryGetValue", "GetVerifiedTransactions", "Verify"}
Methods == Writers \cup Readers

\* a variant in which Remove takes the lock shared
LockKindRemoveShared(m) == IF m \in {"Add", "RemoveStale"} THEN "Lock" ELSE "RLock"

\* which side of the sync.RWMutex a method takes
LockKind(m) ==
    CASE m = "Add"                      -> "Lock"
      [] m = "Remove"                   -> "Lock"
      [] m = "RemoveStale"              -> "Lock"
      [] m = "Count"                    -> "RLock"
      [] m = "ContainsKey"              -> "RLock"
      [] m = "TryGetValue"              -> "RLock"
      [] m = "GetVerifiedTransactions"  -> "RLock"
      [] m = "Verify"                   -> "RLock"

\* sync.RWMutex: Lock needs no holder at all, RLock needs no writer
CanLock(rw, kind) ==
    IF kind = "Lock" THEN rw.w = 0 /\ rw.r = {} ELSE rw.w = 0

Locked(rw, t, kind) ==
    IF kind = "Lock" THEN [rw EXCEPT !.w = t] ELSE [rw EXCEPT !.r = @ \cup {t}]

Unlocked(rw, t, kind) ==
    IF kind = "Lock" THEN [rw EXCEPT !.w = 0] ELSE [rw EXCEPT !.r = @ \ {t}]

\* lk.mixed: a goroutine has entered a critical section while another was in
\* one and one of the two was a writer; lk.sawWriter: a reader has read
\* while a writer was between its Lock and its Unlock.
\* positions of a goroutine: "out" (not in the pool), "call" (in the method,
\* before the lock), "in" (lock held, nothing touched), "map" (a writer has
\* written the map, not the list), "done" (work finished, lock still held)
InCS(t) == lk.thr[t].pc \in {"in", "map", "done"}
Mutating(t) == InCS(t) /\ LockKind(lk.thr[t].m) = "Lock"

LockInit ==
    /\ PoolIdle /\ NoCompare
    /\ VmcIdle /\ MstIdle /\ DspIdle /\ FndIdle /\ TxoIdle /\ CstIdle /\ Part3Idle /\ Part4Idle
    /\ lk = [rw |-> [w |-> 0, r |-> {}],
             thr |-> [t \in Threads |-> [m |-> "none", pc |-> "out"]],
             mixed |-> FALSE, sawWriter |-> FALSE]

lkRest == <<poolVars, cmpVars, vmc, mst, dsp, fnd, txo, cst, nat, inv, ldb, dcl, mcs,
            dec, dsg, srv, cns, brd>>

\* the goroutines that are inside a critical section together with t
Others(t) == {u \in Threads \ {t} : InCS(u)}

\* a goroutine enters a method of the pool
Call(t, m) ==
    /\ lk.thr[t].pc = "out"
    /\ lk' = [lk EXCEPT !.thr[t] = [m |-> m, pc |-> "call"]]
    /\ UNCHANGED lkRest

\* mp.lock.Lock() or mp.lock.RLock() returns
Acquire(t) ==
    /\ lk.thr[t].pc = "call"
    /\ CanLock(lk.rw, LockKind(lk.thr[t].m))
    /\ lk' = [lk EXCEPT !.rw = Locked(@, t, LockKind(lk.thr[t].m)),
                        !.thr[t].pc = "in",
                        !.mixed = @ \/ (\E u \in Others(t) :
                                            lk.thr[t].m \in Writers \/ lk.thr[u].m \in Writers)]
    /\ UNCHANGED lkRest

\* a writer writes mp.verifiedMap: Add's insertion, Remove's and
\* RemoveStale's delete
WriteMap(t) ==
    /\ lk.thr[t].pc = "in"
    /\ lk.thr[t].m \in Writers
    /\ lk' = [lk EXCEPT !.thr[t].pc = "map"]
    /\ UNCHANGED lkRest

\* a writer writes mp.verifiedTxes
WriteList(t) ==
    /\ lk.thr[t].pc = "map"
    /\ lk' = [lk EXCEPT !.thr[t].pc = "done"]
    /\ UNCHANGED lkRest

\* a reader reads the map or the list
Read(t) ==
    /\ lk.thr[t].pc = "in"
    /\ lk.thr[t].m \in Readers
    /\ lk' = [lk EXCEPT !.thr[t].pc = "done",
                        !.sawWriter = @ \/ (\E u \in Threads \ {t} : lk.thr[u].m \in Writers /\ InCS(u))]
    /\ UNCHANGED lkRest

\* mp.lock.Unlock() or the deferred mp.lock.RUnlock(), and the return.  Add
\* returns before any write (ErrConflict, ErrDup) and after the map write
\* alone (ErrOOM); Remove returns without a write when the hash was not in
\* the map; RemoveStale returns without a map write when nothing is stale.
Release(t) ==
    /\ \/ lk.thr[t].pc = "done"
       \/ lk.thr[t].pc = "in" /\ lk.thr[t].m \in {"Add", "Remove"}
       \/ lk.thr[t].pc = "map" /\ lk.thr[t].m = "Add"
    /\ lk' = [lk EXCEPT !.rw = Unlocked(@, t, LockKind(lk.thr[t].m)),
                        !.thr[t] = [m |-> "none", pc |-> "out"]]
    /\ UNCHANGED lkRest

\* RemoveStale with nothing stale only replaces the list
SkipMap(t) ==
    /\ lk.thr[t].pc = "in"
    /\ lk.thr[t].m = "RemoveStale"
    /\ lk' = [lk EXCEPT !.thr[t].pc = "done"]
    /\ UNCHANGED lkRest

LockNext ==
    \E t \in Threads :
        \/ \E m \in Methods : Call(t, m)
        \/ Acquire(t)
        \/ WriteMap(t)
        \/ WriteList(t)
        \/ SkipMap(t)
        \/ Read(t)
        \/ Release(t)

LockSpec == LockInit /\ [][LockNext]_vars

\* C11: Add, Remove and RemoveStale never hold the pool together with one
\* another nor with a reader: whenever two goroutines are inside the pool's
\* critical sections at the same time both are readers, and no reader has
\* read the map or the list while a writer was between its Lock and Unlock.
C11_WritersExclusive ==
    /\ \A t, u \in Threads :
          (t # u /\ InCS(t) /\ InCS(u)) => (lk.thr[t].m \in Readers /\ lk.thr[u].m \in Readers)
    /\ ~lk.mixed
    /\ ~lk.sawWriter

\* two readers overlap, and a writer is waiting for them
C11_Witness ==
    /\ \E t, u \in Threads :
          /\ t # u /\ InCS(t) /\ InCS(u)
          /\ lk.thr[t].m = "Count" /\ lk.thr[u].m = "TryGetValue"
    /\ \E v \in Threads : lk.thr[v].m = "Add" /\ lk.thr[v].pc = "call"

(***************************************************************************)
(* Part 2b: vm.Context, the instruction pointer over a program and the     *)
(* operand reads.  Go's index k of c.prog is prog[k+1] here.               *)
(***************************************************************************)
\* programs of 0..MaxProgLen bytes
MaxProgLen == 4
\* bytes are 0..MaxByteVal
MaxByteVal == 2
\* Next is not followed past this ip
MaxIp == 5
\* the opcode Next returns past the end of the program
RET == 102

Bytes == 0..MaxByteVal
Programs == UNION {[1..n -> Bytes] : n \in 0..MaxProgLen}

NewContext(b) == [ip |-> -1, prog |-> b]

IP(c) == c.ip + 1

\* binary.LittleEndian over the bytes c.prog[start:end]
RECURSIVE LittleEndian(_, _, _)
LittleEndian(prog, start, end) ==
    IF start >= end THEN 0
    ELSE prog[start + 1] + 256 * LittleEndian(prog, start + 1, end)

\* the result of a read: the context after it, how it ended ("ok", "nil" for
\* a nil slice returned, "panic" for the explicit panic, "index" for the
\* run-time panic of an index out of range), the value, and the Go indices
\* of c.prog it has read
ReadResult(c, how, num, out, touched) ==
    [c |-> c, how |-> how, num |-> num, out |-> out, touched |-> touched]

\* readUint32 (width 4) and readUint16 (width 2)
readUint(c, width) ==
    LET start == IP(c)
        end == IP(c) + width
    IN  IF end > Len(c.prog)
        THEN ReadResult(c, "panic", 0, <<>>, {})
        ELSE ReadResult([c EXCEPT !.ip = @ + width], "ok",
                        LittleEndian(c.prog, start, end), <<>>, start..(end - 1))

\* the opcode CurrInstr returns before the first Next
NOP == 97

\* Context.CurrInstr: NOP before the first Next, else c.prog[c.ip], an index
\* out of range when ip is not inside the program
CurrInstrOf(c) ==
    IF c.ip < 0 THEN ReadResult(c, "ok", NOP, <<>>, {})
    ELSE IF c.ip >= Len(c.prog) THEN ReadResult(c, "index", 0, <<>>, {})
    ELSE ReadResult(c, "ok", c.prog[c.ip + 1], <<>>, {c.ip})

readBytes(c, n) ==
    LET start == IP(c)
        end == IP(c) + n
    IN  IF end > Len(c.prog)
        THEN ReadResult(c, "nil", 0, <<>>, {})
        ELSE ReadResult([c EXCEPT !.ip = @ + n], "ok", 0,
                        SubSeq(c.prog, start + 1, end), start..(end - 1))

\* c.readBytes(1)[0]: index 0 of a nil slice when readBytes gave nil
readByte(c) ==
    LET r == readBytes(c, 1)
    IN  IF r.how = "nil"
        THEN ReadResult(r.c, "index", 0, <<>>, {})
        ELSE ReadResult(r.c, "ok", r.out[1], <<>>, r.touched)

readVarBytes(c) ==
    LET n == readByte(c)
    IN  IF n.how # "ok" THEN n
        ELSE LET r == readBytes(n.c, n.num)
             IN  [r EXCEPT !.touched = @ \cup n.touched]

\* the bytes of the program from IP() on, and the bytes an operand needs
Remaining(c) == Len(c.prog) - IP(c)
NeedVarBytes(c) == IF Remaining(c) < 1 THEN 1 ELSE 1 + c.prog[IP(c) + 1]

VmcInit ==
    /\ PoolIdle /\ NoCompare
    /\ LkIdle /\ MstIdle /\ DspIdle /\ FndIdle /\ TxoIdle /\ CstIdle /\ Part3Idle /\ Part4Idle
    /\ \E b \in Programs :
          vmc = [c |-> NewContext(b), viaNext |-> TRUE,
                 last |-> [op |-> "NewContext", pre |-> NewContext(b), need |-> 0,
                           res |-> ReadResult(NewContext(b), "ok", 0, <<>>, {})]]

vmcRest == <<poolVars, cmpVars, lk, mst, dsp, fnd, txo, cst, nat, inv, ldb, dcl, mcs,
            dec, dsg, srv, cns, brd>>

\* the context after a call, and the record of the call
After(op, need, r) ==
    [c |-> r.c, viaNext |-> vmc.viaNext /\ op \in {"Next", "CurrInstr"},
     last |-> [op |-> op, pre |-> vmc.c, need |-> need, res |-> r]]

\* Context.Next
NextInstr ==
    /\ vmc.c.ip < MaxIp
    /\ LET c == [vmc.c EXCEPT !.ip = @ + 1]
       IN  vmc' = After("Next", 0,
                        IF c.ip >= Len(c.prog)
                        THEN ReadResult(c, "ok", RET, <<>>, {})
                        ELSE ReadResult(c, "ok", c.prog[c.ip + 1], <<>>, {c.ip}))
    /\ UNCHANGED vmcRest

ReadUint32 ==
    /\ vmc' = After("readUint32", 4, readUint(vmc.c, 4))
    /\ UNCHANGED vmcRest

ReadUint16 ==
    /\ vmc' = After("readUint16", 2, readUint(vmc.c, 2))
    /\ UNCHANGED vmcRest

ReadByte ==
    /\ vmc' = After("readByte", 1, readByte(vmc.c))
    /\ UNCHANGED vmcRest

ReadBytes(n) ==
    /\ vmc' = After("readBytes", n, readBytes(vmc.c, n))
    /\ UNCHANGED vmcRest

ReadVarBytes ==
    /\ vmc' = After("readVarBytes", NeedVarBytes(vmc.c), readVarBytes(vmc.c))
    /\ UNCHANGED vmcRest

CurrInstr ==
    /\ vmc' = After("CurrInstr", 0, CurrInstrOf(vmc.c))
    /\ UNCHANGED vmcRest

VmcNext ==
    \/ NextInstr
    \/ CurrInstr
    \/ ReadUint32
    \/ ReadUint16
    \/ ReadByte
    \/ \E n \in 0..MaxProgLen : ReadBytes(n)
    \/ ReadVarBytes

VmcSpec == VmcInit /\ [][VmcNext]_vars

OperandReads == {"readUint32", "readUint16", "readByte", "readBytes", "readVarBytes"}

\* the last call was an operand read that needed more bytes than remained
ShortRead ==
    /\ vmc.last.op \in OperandReads
    /\ Remaining(vmc.last.pre) < vmc.last.need

\* whatever a read does, the indices it reads are indices of the program
ReadsStayInside ==
    vmc.last.res.touched \subseteq 0..(Len(vmc.last.pre.prog) - 1)

\* C12: an operand read made when fewer bytes remain than the operand needs
\* does not panic and reads no index outside the program buffer.
C12_ShortReadNeverPanics ==
    ShortRead => /\ vmc.last.res.how \notin {"panic", "index"}
                 /\ vmc.last.res.touched \subseteq 0..(Len(vmc.last.pre.prog) - 1)

(***************************************************************************)
(* Part 2c: storage.MemoryStore, the overlay of pending puts (mem) and     *)
(* pending deletes (del), over an underlying Store ps that is reached only *)
(* through the Store interface.  A Go map is a function on a set of keys.  *)
(***************************************************************************)
\* stored values are 1..MaxValue
MaxValue == 2

StoreKeys == {<<1>>, <<1, 2>>, <<2>>}
StorePrefixes == {<<>>, <<1>>, <<1, 2>>, <<2>>, <<1, 2, 1>>}
StoreValues == 1..MaxValue

EmptyMap == [k \in {} |-> 0]
ErrKeyNotFound == "ErrKeyNotFound"
ErrPutBatch == "ErrPutBatch"        \* whatever error ps.PutBatch returns

\* strings.HasPrefix
HasPrefix(k, p) == Len(p) <= Len(k) /\ SubSeq(k, 1, Len(p)) = p

newMemoryBatch == [m |-> EmptyMap, del |-> {}]

\* MemoryBatch.Put and MemoryBatch.Delete
BatchPut(b, k, v) == [m |-> MapPut(b.m, k, v), del |-> b.del \ {k}]
BatchDelete(b, k) == [m |-> MapDelete(b.m, k), del |-> b.del \cup {k}]

\* a variant of Delete that marks the key and leaves its value in place
StoreDeleteMarkOnly(s, k) == [mem |-> s.mem, del |-> s.del \cup {k}]

\* the state of a MemoryStore after Put, Delete and PutBatch
StorePut(s, k, v) == [mem |-> MapPut(s.mem, k, v), del |-> s.del \ {k}]
StoreDelete(s, k) == [mem |-> MapDelete(s.mem, k), del |-> s.del \cup {k}]

RECURSIVE DeleteEach(_, _)
DeleteEach(s, ks) ==
    IF ks = {} THEN s
    ELSE LET k == CHOOSE x \in ks : TRUE
         IN  DeleteEach(StoreDelete(s, k), ks \ {k})

RECURSIVE PutEach(_, _, _)
PutEach(s, m, ks) ==
    IF ks = {} THEN s
    ELSE LET k == CHOOSE x \in ks : TRUE
         IN  PutEach(StorePut(s, k, m[k]), m, ks \ {k})

StorePutBatch(s, b) == PutEach(DeleteEach(s, b.del), b.m, DOMAIN b.m)

\* the two loops of Persist over s.mem and s.del, filling the batch
RECURSIVE BatchPutEach(_, _, _)
BatchPutEach(b, m, ks) ==
    IF ks = {} THEN b
    ELSE LET k == CHOOSE x \in ks : TRUE
         IN  BatchPutEach(BatchPut(b, k, m[k]), m, ks \ {k})

RECURSIVE BatchDeleteEach(_, _)
BatchDeleteEach(b, ks) ==
    IF ks = {} THEN b
    ELSE LET k == CHOOSE x \in ks : TRUE
         IN  BatchDeleteEach(BatchDelete(b, k), ks \ {k})

\* a variant that leaves the pending deletes out of the batch
PersistBatchPutsOnly(s) == BatchPutEach(newMemoryBatch, s.mem, DOMAIN s.mem)

PersistBatch(s) ==
    BatchDeleteEach(BatchPutEach(newMemoryBatch, s.mem, DOMAIN s.mem), s.del)

\* a variant that empties the overlay whatever PutBatch returned
PersistOverlayAlwaysReset(s, err) == [mem |-> EmptyMap, del |-> {}]

\* the overlay Persist leaves: reset only when err == nil
PersistOverlay(s, err) ==
    IF err = "nil" THEN [mem |-> EmptyMap, del |-> {}] ELSE s

\* the orders in which a range loop can visit the keys of a map
Orders(S) == {f \in [1..Cardinality(S) -> S] : \A i, j \in DOMAIN f : f[i] = f[j] => i = j}

\* a variant of Seek's loop that calls f for every key
SeekCallsAll(mem, ord, prefix) == [i \in DOMAIN ord |-> <<ord[i], mem[ord[i]]>>]

\* the calls of f that Seek makes when the range visits the keys in order ord
SeekCalls(mem, ord, prefix) ==
    LET visit == [i \in DOMAIN ord |-> <<ord[i], mem[ord[i]]>>]
    IN  SelectSeq(visit, LAMBDA kv : HasPrefix(kv[1], prefix))

NewMemoryStore == [mem |-> EmptyMap, del |-> {}]

Overlay == [mem |-> mst.mem, del |-> mst.del]

NoCall == [op |-> "NewMemoryStore", key |-> <<>>, pre |-> NewMemoryStore,
           psCalls |-> <<>>, ret |-> 0, err |-> "nil", seen |-> <<>>]

MstInit ==
    /\ PoolIdle /\ NoCompare
    /\ LkIdle /\ VmcIdle /\ DspIdle /\ FndIdle /\ TxoIdle /\ CstIdle /\ Part3Idle /\ Part4Idle
    /\ mst = [mem |-> EmptyMap, del |-> {}, ps |-> EmptyMap, last |-> NoCall]

mstRest == <<poolVars, cmpVars, lk, vmc, dsp, fnd, txo, cst, nat, inv, ldb, dcl, mcs,
            dec, dsg, srv, cns, brd>>

\* the store after a call: the overlay s, the underlying store ps, and the
\* record of the call (the overlay before the call is kept for Persist)
MstAfter(s, ps, op, key, psCalls, ret, err, seen) ==
    [mem |-> s.mem, del |-> s.del, ps |-> ps,
     last |-> [op |-> op, key |-> key,
               pre |-> IF op = "Persist" THEN Overlay ELSE NewMemoryStore,
               psCalls |-> psCalls, ret |-> ret, err |-> err, seen |-> seen]]

Get(key) ==
    /\ mst' = IF key \in DOMAIN mst.mem
              THEN MstAfter(Overlay, mst.ps, "Get", key, <<>>, mst.mem[key], "nil", <<>>)
              ELSE MstAfter(Overlay, mst.ps, "Get", key, <<>>, 0, ErrKeyNotFound, <<>>)
    /\ UNCHANGED mstRest

Put(key, value) ==
    /\ mst' = MstAfter(StorePut(Overlay, key, value), mst.ps, "Put", key, <<>>, 0, "nil", <<>>)
    /\ UNCHANGED mstRest

Delete(key) ==
    /\ mst' = MstAfter(StoreDelete(Overlay, key), mst.ps, "Delete", key, <<>>, 0, "nil", <<>>)
    /\ UNCHANGED mstRest

\* PutBatch with a batch of one delete and one put, made in either order
\* (the order shows in the batch only when both name the same key)
PutBatch(k1, k2, v, putLast) ==
    /\ putLast \/ k1 = k2
    /\ LET b == IF putLast THEN BatchPut(BatchDelete(newMemoryBatch, k1), k2, v)
                ELSE BatchDelete(BatchPut(newMemoryBatch, k2, v), k1)
       IN  mst' = MstAfter(StorePutBatch(Overlay, b), mst.ps, "PutBatch", k1, <<>>, 0, "nil", <<>>)
    /\ UNCHANGED mstRest

Seek(prefix) ==
    /\ \E ord \in Orders(DOMAIN mst.mem) :
          mst' = MstAfter(Overlay, mst.ps, "Seek", prefix, <<>>, 0, "nil",
                          SeekCalls(mst.mem, ord, prefix))
    /\ UNCHANGED mstRest

\* Persist(ps): ps.Batch(), the batch filled from the overlay, then
\* ps.PutBatch if the overlay is not empty.  ps.PutBatch either applies the
\* batch and returns nil or returns an error; fails chooses which.
Persist(fails) ==
    /\ LET batch == PersistBatch(Overlay)
           keys == Cardinality(DOMAIN mst.mem)
           dkeys == Cardinality(mst.del)
           called == keys # 0 \/ dkeys # 0
           err == IF called /\ fails THEN ErrPutBatch ELSE "nil"
           ps == IF called /\ ~fails
                 THEN StorePutBatch([mem |-> mst.ps, del |-> {}], batch).mem
                 ELSE mst.ps
           psCalls == IF called
                      THEN <<[call |-> "Batch", batch |-> newMemoryBatch, err |-> "nil"],
                             [call |-> "PutBatch", batch |-> batch, err |-> err]>>
                      ELSE <<[call |-> "Batch", batch |-> newMemoryBatch, err |-> "nil"]>>
       IN  /\ fails => called
           /\ mst' = MstAfter(PersistOverlay(Overlay, err), ps, "Persist", <<>>,
                              psCalls, keys, err, <<>>)
    /\ UNCHANGED mstRest

MstNext ==
    \/ \E k \in StoreKeys : Get(k)
    \/ \E k \in StoreKeys, v \in StoreValues : Put(k, v)
    \/ \E k \in StoreKeys : Delete(k)
    \/ \E k1, k2 \in StoreKeys, putLast \in BOOLEAN : PutBatch(k1, k2, MaxValue, putLast)
    \/ \E p \in StorePrefixes : Seek(p)
    \/ \E fails \in BOOLEAN : Persist(fails)

MstSpec == MstInit /\ [][MstNext]_vars

LastPutBatches == SelectSeq(mst.last.psCalls, LAMBDA c : c.call = "PutBatch")
OverlayEmpty(s) == DOMAIN s.mem = {} /\ s.del = {}

\* C13: Persist reaches the underlying store by one PutBatch call whose batch
\* holds every pending put (key and value) and every pending delete of the
\* overlay; it makes no second PutBatch call and no Put or Delete call on the
\* underlying store (with an empty overlay it makes no PutBatch call at all).
C13_PersistOneBatch ==
    mst.last.op = "Persist" =>
        /\ \A i \in DOMAIN mst.last.psCalls : mst.last.psCalls[i].call \in {"Batch", "PutBatch"}
        /\ Len(LastPutBatches) = (IF OverlayEmpty(mst.last.pre) THEN 0 ELSE 1)
        /\ \A i \in DOMAIN LastPutBatches :
              /\ LastPutBatches[i].batch.m = mst.last.pre.mem
              /\ LastPutBatches[i].batch.del = mst.last.pre.del

\* a Persist that handed over puts and deletes together
C13_Witness ==
    /\ mst.last.op = "Persist"
    /\ Len(LastPutBatches) = 1
    /\ Cardinality(DOMAIN mst.last.pre.mem) = 2
    /\ mst.last.pre.del # {}
    /\ mst.last.err = "nil"
    /\ <<2>> \in DOMAIN mst.ps

\* C14: when ps.PutBatch fails, Persist returns that error and the overlay
\* holds the same pending puts and deletes as before the call: Persist
\* changes the overlay only when it returns no error, and then empties it.
C14_FailedPersistKeepsOverlay ==
    /\ \A i \in DOMAIN LastPutBatches :
          LastPutBatches[i].err # "nil" =>
              /\ mst.last.err = LastPutBatches[i].err
              /\ Overlay = mst.last.pre
    /\ (mst.last.op = "Persist" /\ Overlay # mst.last.pre)
          => (mst.last.err = "nil" /\ Overlay = NewMemoryStore)

\* a failed Persist with puts and deletes pending
C14_Witness ==
    /\ mst.last.op = "Persist"
    /\ mst.last.err = ErrPutBatch
    /\ DOMAIN mst.mem # {} /\ mst.del # {}

\* C16: Seek(prefix, f) calls f once for every key of the store that starts
\* with prefix, with the value stored for it, and for no other key.
C16_SeekExactlyPrefixed ==
    mst.last.op = "Seek" =>
        /\ \A k \in DOMAIN mst.mem :
              HasPrefix(k, mst.last.key) =>
                  Cardinality({i \in DOMAIN mst.last.seen : mst.last.seen[i][1] = k}) = 1
        /\ \A i \in DOMAIN mst.last.seen :
              /\ mst.last.seen[i][1] \in DOMAIN mst.mem
              /\ HasPrefix(mst.last.seen[i][1], mst.last.key)
              /\ mst.last.seen[i][2] = mst.mem[mst.last.seen[i][1]]
              /\ mst.last.seen[i][1] \notin mst.del

\* a Seek that reported one key and left out a stored key and a deleted one
C16_Witness ==
    /\ mst.last.op = "Seek"
    /\ mst.last.key = <<1>>
    /\ Len(mst.last.seen) = 1
    /\ mst.last.seen[1][1] = <<1, 2>>
    /\ <<2>> \in DOMAIN mst.mem
    /\ <<1>> \in mst.del

(***************************************************************************)
(* Part 2d: dao.IsDoubleSpend over the unspent-coin records of the DAO.    *)
(* A record is the slice of coin states of one previous transaction; Go's  *)
(* index k of unspent.states is states[k+1] here.                          *)
(***************************************************************************)
\* previous transactions are 1..NumPrevHash
NumPrevHash == 2
\* a previous transaction has at most MaxCoins outputs
MaxCoins == 1
\* a transaction has at most MaxInputs inputs
MaxInputs == 2

CoinConfirmed == "CoinConfirmed"
CoinSpent == "CoinSpent"
CoinStates == {CoinConfirmed, CoinSpent}

PrevHashes == 1..NumPrevHash
UnspentRecords == UNION {[1..n -> CoinStates] : n \in 0..MaxCoins}
\* the stores of records: a record for some of the previous transactions
CoinStores == UNION {[hs -> UnspentRecords] : hs \in SUBSET PrevHashes}

\* inputs may name an output index one past the largest record
InputUniverse == {Input(h, i) : h \in PrevHashes, i \in 0..MaxCoins}
InputLists == UNION {[1..n -> InputUniverse] : n \in 0..MaxInputs}

\* GroupInputsByPrevHash: the inputs sorted by PrevHash and cut into one
\* group per PrevHash (the order inside a group is left open by sort.Slice;
\* the order of the list is kept here)
RECURSIVE GroupsFrom(_, _)
GroupsFrom(ins, h) ==
    IF h > NumPrevHash THEN <<>>
    ELSE LET group == SelectSeq(ins, LAMBDA in : in.PrevHash = h)
         IN  (IF group = <<>> THEN <<>> ELSE <<group>>) \o GroupsFrom(ins, h + 1)

GroupInputsByPrevHash(ins) == GroupsFrom(ins, 1)

\* GetUnspentCoinState fails for a previous transaction without a record
HasUnspent(coins, prevHash) == prevHash \in DOMAIN coins

\* the inner loop: an input of the group is out of range or spent
GroupSpent(states, inputs) ==
    \E i \in DOMAIN inputs :
        \/ inputs[i].PrevIndex >= Len(states)
        \/ states[inputs[i].PrevIndex + 1] = CoinSpent

\* the outer loop from group g on
RECURSIVE DoubleSpendLoop(_, _, _)
DoubleSpendLoop(coins, groups, g) ==
    IF g > Len(groups) THEN FALSE
    ELSE LET prevHash == groups[g][1].PrevHash
         IN  IF ~HasUnspent(coins, prevHash) THEN FALSE
             ELSE IF GroupSpent(coins[prevHash], groups[g]) THEN TRUE
             ELSE DoubleSpendLoop(coins, groups, g + 1)

IsDoubleSpendOf(coins, ins) ==
    IF Len(ins) = 0 THEN FALSE
    ELSE DoubleSpendLoop(coins, GroupInputsByPrevHash(ins), 1)

DspInit ==
    /\ PoolIdle /\ NoCompare
    /\ LkIdle /\ VmcIdle /\ MstIdle /\ FndIdle /\ TxoIdle /\ CstIdle /\ Part3Idle /\ Part4Idle
    /\ \E coins \in CoinStores :
          dsp = [coins |-> coins, Inputs |-> <<>>, res |-> FALSE, done |-> FALSE]

dspRest == <<poolVars, cmpVars, lk, vmc, mst, fnd, txo, cst, nat, inv, ldb, dcl, mcs,
            dec, dsg, srv, cns, brd>>

\* dao.IsDoubleSpend(tx) for a transaction with the inputs ins
IsDoubleSpend(ins) ==
    /\ ~dsp.done
    /\ dsp' = [dsp EXCEPT !.Inputs = ins, !.res = IsDoubleSpendOf(dsp.coins, ins),
                          !.done = TRUE]
    /\ UNCHANGED dspRest

DspNext == \E ins \in InputLists : IsDoubleSpend(ins)

DspSpec == DspInit /\ [][DspNext]_vars

\* input i of the transaction names an output whose coin state is CoinSpent
RefersToSpent(i) ==
    LET in == dsp.Inputs[i]
    IN  /\ in.PrevHash \in DOMAIN dsp.coins
        /\ in.PrevIndex < Len(dsp.coins[in.PrevHash])
        /\ dsp.coins[in.PrevHash][in.PrevIndex + 1] = CoinSpent

\* C15: IsDoubleSpend(tx) is true whenever some input of tx names an output
\* whose coin state is spent, whatever the other inputs of tx name.
C15_SpentInputIsDoubleSpend ==
    (dsp.done /\ \E i \in DOMAIN dsp.Inputs : RefersToSpent(i)) => dsp.res = TRUE

(***************************************************************************)
(* Part 2e: storage Find.  storageFind collects the storage items of one   *)
(* contract whose key starts with the prefix into a map of stack items     *)
(* sorted by key; the Iterator walks that map and Value shapes each        *)
(* element according to the option flags.                                  *)
(***************************************************************************)
\* a serialized array holds at most MaxFields fields
MaxFields == 2

FindKeysOnly == 1
FindRemovePrefix == 2
FindValuesOnly == 4
FindDeserialize == 8
FindPick0 == 16
FindPick1 == 32
FindAll == 63

FindOptions == 0..FindAll

\* s.opts&flag != 0, for a flag that is a power of two
HasOpt(opts, flag) == (opts \div flag) % 2 = 1
WithoutOpt(opts, flag) == IF HasOpt(opts, flag) THEN opts - flag ELSE opts

\* stack items
NewByteArray(b) == [t |-> "ByteArray", v |-> b]
NewArray(items) == [t |-> "Array", v |-> items]
NewStruct(items) == [t |-> "Struct", v |-> items]

\* The serialized form of an item, as far as Find needs it: <<0>> and the
\* bytes for a byte array, <<1, n>> and n one-byte fields for an array.
SerializeItem(item) ==
    IF item.t = "ByteArray" THEN <<0>> \o item.v
    ELSE <<1, Len(item.v)>> \o [i \in DOMAIN item.v |-> item.v[i].v[1]]

\* stackitem.DeserializeItem: the item, or an error for malformed bytes
DeserializeItem(bs) ==
    IF bs = <<>> THEN [err |-> TRUE]
    ELSE IF bs[1] = 0 THEN [err |-> FALSE, item |-> NewByteArray(Tail(bs))]
    ELSE IF bs[1] = 1 /\ Len(bs) >= 2 /\ Len(bs) = 2 + bs[2]
         THEN [err |-> FALSE,
               item |-> NewArray([i \in 1..bs[2] |-> NewByteArray(<<bs[2 + i]>>)])]
    ELSE [err |-> TRUE]

\* the values found in storage: a byte array, the arrays of 0..MaxFields
\* fields, an array cut short and an unknown tag
FindValues ==
    {SerializeItem(NewByteArray(<<7>>))}
        \cup {SerializeItem(NewArray([i \in 1..n |-> NewByteArray(<<10 + i>>)])) : n \in 0..MaxFields}
        \cup {<<1, 1>>, <<9>>}

FindKeys == {<<1>>, <<1, 2>>, <<2>>}
MaxNextCalls == 5
FindPrefixes == {<<>>, <<1>>, <<1, 2>>}

\* the storage of the contract: some of the keys, one value
FindStorages == UNION {[ks -> {v}] : ks \in SUBSET FindKeys, v \in FindValues}

\* bytes.Compare
BytesCompare(a, b) ==
    LET n == IF Len(a) < Len(b) THEN Len(a) ELSE Len(b)
        diff == {i \in 1..n : a[i] # b[i]}
    IN  IF diff = {}
        THEN (IF Len(a) < Len(b) THEN -1 ELSE IF Len(a) > Len(b) THEN 1 ELSE 0)
        ELSE LET i == CHOOSE x \in diff : \A y \in diff : x <= y
             IN  IF a[i] < b[i] THEN -1 ELSE 1

\* dao.GetStorageItemsWithPrefix: the items whose key starts with prefix,
\* keyed by the rest of the key
GetStorageItemsWithPrefix(storage, prefix) ==
    LET ks == {k \in DOMAIN storage : HasPrefix(k, prefix)}
        rest(k) == SubSeq(k, Len(prefix) + 1, Len(k))
    IN  [r \in {rest(k) : k \in ks} |-> storage[prefix \o r]]

\* the loop of storageFind over siMap visited in the order ord
FilteredMap(siMap, ord, prefix) ==
    [i \in DOMAIN ord |-> [Key |-> NewByteArray(prefix \o ord[i]),
                            Value |-> NewByteArray(siMap[ord[i]])]]

\* a variant of the sort that leaves the map in the order of the loop
SortByKeyNot(m) == m

\* sort.Slice with less = (bytes.Compare(key i, key j) == -1)
RECURSIVE SortByKey(_)
SortByKey(m) ==
    IF m = <<>> THEN <<>>
    ELSE LET i == CHOOSE x \in DOMAIN m :
                    \A y \in DOMAIN m : BytesCompare(m[y].Key.v, m[x].Key.v) # -1 \/ y = x
             rest == [j \in 1..(Len(m) - 1) |-> IF j < i THEN m[j] ELSE m[j + 1]]
         IN  <<m[i]>> \o SortByKey(rest)

NewIterator(m, opts) == [m |-> m, opts |-> opts, index |-> -1]

\* the result of Value: an item, or a panic
ValueOk(item) == [how |-> "ok", item |-> item]
ValuePanic == [how |-> "panic", item |-> NewByteArray(<<>>)]

\* value.Value().([]stackitem.Item)[k]: field k of an array or a struct
PickField(value, k) ==
    IF value.t \in {"Array", "Struct"} /\ k < Len(value.v)
    THEN ValueOk(value.v[k + 1])
    ELSE ValuePanic

\* a variant of the value part in which Pick1 is looked at before Pick0
ValuePartPick1First(elem, opts) ==
    LET des == IF HasOpt(opts, FindDeserialize)
               THEN (IF DeserializeItem(elem.Value.v).err THEN ValuePanic
                     ELSE ValueOk(DeserializeItem(elem.Value.v).item))
               ELSE ValueOk(elem.Value)
    IN  IF des.how = "panic" THEN des
        ELSE IF HasOpt(opts, FindPick1) THEN PickField(des.item, 1)
        ELSE IF HasOpt(opts, FindPick0) THEN PickField(des.item, 0)
        ELSE des

\* lines 48-61 of Value: the value after Deserialize and the Pick flags
ValuePart(elem, opts) ==
    LET des == IF HasOpt(opts, FindDeserialize)
               THEN (IF DeserializeItem(elem.Value.v).err THEN ValuePanic
                     ELSE ValueOk(DeserializeItem(elem.Value.v).item))
               ELSE ValueOk(elem.Value)
    IN  IF des.how = "panic" THEN des
        ELSE IF HasOpt(opts, FindPick0) THEN PickField(des.item, 0)
        ELSE IF HasOpt(opts, FindPick1) THEN PickField(des.item, 1)
        ELSE des

\* lines 41-44 of Value: the key, after key[1:] under RemovePrefix
KeyPart(elem, opts) ==
    IF HasOpt(opts, FindRemovePrefix)
    THEN (IF Len(elem.Key.v) < 1 THEN ValuePanic
          ELSE ValueOk(NewByteArray(Tail(elem.Key.v))))
    ELSE ValueOk(elem.Key)

\* Iterator.Value on the element elem
ElemValue(elem, opts) ==
    LET key == KeyPart(elem, opts)
        value == ValuePart(elem, opts)
    IN  IF key.how = "panic" THEN ValuePanic
        ELSE IF HasOpt(opts, FindKeysOnly) THEN key
        ELSE IF value.how = "panic" THEN ValuePanic
        ELSE IF HasOpt(opts, FindValuesOnly) THEN value
        ELSE ValueOk(NewStruct(<<key.item, value.item>>))

\* Iterator.Value: s.m[s.index] panics outside 0..len(s.m)-1
IteratorValue(it) ==
    IF it.index < 0 \/ it.index >= Len(it.m) THEN ValuePanic
    ELSE ElemValue(it.m[it.index + 1], it.opts)

FndInit ==
    /\ PoolIdle /\ NoCompare
    /\ LkIdle /\ VmcIdle /\ MstIdle /\ DspIdle /\ TxoIdle /\ CstIdle /\ Part3Idle /\ Part4Idle
    /\ \E st \in FindStorages :
          fnd = [storage |-> st, found |-> FALSE, prefix |-> <<>>, visited |-> <<>>,
                 it |-> NewIterator(<<>>, 0), calls |-> 0,
                 last |-> [op |-> "none", ret |-> FALSE, res |-> ValuePanic]]

fndRest == <<poolVars, cmpVars, lk, vmc, mst, dsp, txo, cst, nat, inv, ldb, dcl, mcs,
            dec, dsg, srv, cns, brd>>

\* storageFind with the given prefix; the iterator takes the options
Find(prefix, opts) ==
    /\ ~fnd.found
    /\ LET siMap == GetStorageItemsWithPrefix(fnd.storage, prefix)
       IN  \E ord \in Orders(DOMAIN siMap) :
              fnd' = [fnd EXCEPT !.found = TRUE, !.prefix = prefix, !.visited = ord,
                                 !.calls = 0,
                                 !.it = NewIterator(SortByKey(FilteredMap(siMap, ord, prefix)), opts),
                                 !.last = [op |-> "Find", ret |-> FALSE, res |-> ValuePanic]]
    /\ UNCHANGED fndRest

\* a variant of Next that advances the index on every call
NextIndexAlways(it) == it.index + 1

\* lines 34-36 of Next: the index moves only while it is below len(s.m)
NextIndex(it) == IF it.index < Len(it.m) THEN it.index + 1 ELSE it.index

\* Iterator.Next; calls counts the calls on this iterator, up to MaxNextCalls
IteratorNext ==
    /\ fnd.found
    /\ fnd.calls < MaxNextCalls
    /\ LET index == NextIndex(fnd.it)
       IN  fnd' = [fnd EXCEPT !.it.index = index, !.calls = @ + 1,
                              !.last = [op |-> "Next", ret |-> index < Len(fnd.it.m),
                                        res |-> ValuePanic]]
    /\ UNCHANGED fndRest

\* Iterator.Value
Value ==
    /\ fnd.found
    /\ fnd' = [fnd EXCEPT !.last = [op |-> "Value", ret |-> FALSE, res |-> IteratorValue(fnd.it)]]
    /\ UNCHANGED fndRest

FndNext ==
    \/ \E prefix \in FindPrefixes, opts \in FindOptions : Find(prefix, opts)
    \/ IteratorNext
    \/ Value

FndSpec == FndInit /\ [][FndNext]_vars

\* the element the iterator stands on, when it stands on one
OnElement == fnd.found /\ fnd.it.index >= 0 /\ fnd.it.index < Len(fnd.it.m)
CurrentElem == fnd.it.m[fnd.it.index + 1]
ValueCalled == OnElement /\ fnd.last.op = "Value"

\* the key a result of Value exposes: the result itself under KeysOnly, the
\* first field of the pair otherwise (none under ValuesOnly alone)
ExposesKey(opts) == HasOpt(opts, FindKeysOnly) \/ ~HasOpt(opts, FindValuesOnly)
ExposedKey(res, opts) ==
    IF HasOpt(opts, FindKeysOnly) THEN res.item.v ELSE res.item.v[1].v

\* the value of a result that carries one
CarriesValue(opts) == ~HasOpt(opts, FindKeysOnly)
CarriedValue(res, opts) ==
    IF HasOpt(opts, FindValuesOnly) THEN res.item ELSE res.item.v[2]

\* C17: with RemovePrefix set, a key exposed by Value is the stored key
\* without the search prefix, whatever the length of the prefix.
C17_RemovePrefixWholePrefix ==
    (ValueCalled /\ HasOpt(fnd.it.opts, FindRemovePrefix)
        /\ fnd.last.res.how = "ok" /\ ExposesKey(fnd.it.opts))
        => ExposedKey(fnd.last.res, fnd.it.opts)
              = SubSeq(CurrentElem.Key.v, Len(fnd.prefix) + 1, Len(CurrentElem.Key.v))

\* C18 as worded: every flag that is set takes its effect whatever the other
\* flags are: with ValuesOnly the result is the one obtained without
\* KeysOnly, with Pick1 the result is the one obtained without Pick0.
C18_FlagsOrthogonal ==
    ValueCalled =>
        /\ HasOpt(fnd.it.opts, FindValuesOnly)
              => fnd.last.res = ElemValue(CurrentElem, WithoutOpt(fnd.it.opts, FindKeysOnly))
        /\ HasOpt(fnd.it.opts, FindPick1)
              => fnd.last.res = ElemValue(CurrentElem, WithoutOpt(fnd.it.opts, FindPick0))

\* the options with ValuesOnly, Deserialize, Pick0 and Pick1 cleared
KeyOptions(opts) ==
    WithoutOpt(WithoutOpt(WithoutOpt(WithoutOpt(opts, FindValuesOnly), FindDeserialize),
                          FindPick0), FindPick1)

\* C18: the flags take effect with two precedences.  KeysOnly overrides
\* ValuesOnly, Deserialize, Pick0 and Pick1: the result is the one obtained
\* with those four cleared.  Pick0 overrides Pick1.  Otherwise each flag acts
\* on its own part: ValuesOnly returns the value that the pair would carry,
\* Pick0 and Pick1 select the first and the second field of the value
\* obtained without them, Deserialize makes that value the deserialized
\* bytes, and RemovePrefix changes the key only.
C18_FlagsWithPrecedence ==
    ValueCalled =>
        LET o == fnd.it.opts
            e == CurrentElem
            r == fnd.last.res
            noPick == WithoutOpt(WithoutOpt(o, FindPick0), FindPick1)
        IN  /\ HasOpt(o, FindKeysOnly) => r = ElemValue(e, KeyOptions(o))
            /\ HasOpt(o, FindPick0) => r = ElemValue(e, WithoutOpt(o, FindPick1))
            /\ (CarriesValue(o) /\ r.how = "ok") =>
                  /\ ElemValue(e, WithoutOpt(o, FindValuesOnly)).how = "ok"
                  /\ CarriedValue(r, o) = ElemValue(e, WithoutOpt(o, FindValuesOnly)).item.v[2]
                  /\ CarriedValue(r, o) = CarriedValue(ElemValue(e, WithoutOpt(o, FindRemovePrefix)),
                                                       WithoutOpt(o, FindRemovePrefix))
                  /\ ElemValue(e, noPick).how = "ok"
                  /\ HasOpt(o, FindPick0)
                        => CarriedValue(r, o) = CarriedValue(ElemValue(e, noPick), noPick).v[1]
                  /\ (HasOpt(o, FindPick1) /\ ~HasOpt(o, FindPick0))
                        => CarriedValue(r, o) = CarriedValue(ElemValue(e, noPick), noPick).v[2]
                  /\ (noPick = o) =>
                        CarriedValue(r, o) = (IF HasOpt(o, FindDeserialize)
                                              THEN DeserializeItem(e.Value.v).item
                                              ELSE e.Value)

\* Value called with KeysOnly, ValuesOnly, Deserialize, Pick0 and Pick1 all
\* set on an element whose value is an array of two fields
C18_Witness ==
    /\ ValueCalled
    /\ fnd.it.opts = FindAll - FindRemovePrefix
    /\ fnd.last.res = ValueOk(CurrentElem.Key)
    /\ ~DeserializeItem(CurrentElem.Value.v).err
    /\ DeserializeItem(CurrentElem.Value.v).item.t = "Array"
    /\ Len(DeserializeItem(CurrentElem.Value.v).item.v) = 2

\* Value called with Deserialize, Pick0 and Pick1 set
C18_PickWitness ==
    /\ ValueCalled
    /\ fnd.it.opts = FindDeserialize + FindPick0 + FindPick1
    /\ fnd.last.res.how = "ok"
    /\ fnd.last.res.item.t = "Struct"
    /\ fnd.last.res.item.v[2] = NewByteArray(<<11>>)

(***************************************************************************)
(* Part 2f: transaction.Transaction and its memoized hashes.  Of the       *)
(* hashable fields Network, SystemFee and Script vary; the others keep the *)
(* zero value.  A Uint256 is a number, the zero hash is 0.                 *)
(***************************************************************************)
\* networks are 0..MaxNetwork
MaxNetwork == 1
\* system fees are 0..MaxGas
MaxGas == 1
\* scripts have 0..MaxScriptLen bytes
MaxScriptLen == 2

Networks == 0..MaxNetwork
Gas == 0..MaxGas
Scripts == UNION {[1..n -> {81}] : n \in 0..MaxScriptLen}
TrimmedHashes == {4660}

\* WriteU32LE, WriteU64LE: n bytes of v, little end first (the values
\* written here are below 2^24, the bytes after the third are zero)
LEBytes(v, n) == [i \in 1..n |-> IF i <= 3 THEN (v \div (256 ^ (i - 1))) % 256 ELSE 0]

\* hash.Sha256, as a checksum of the bytes (the sum of the bytes weighted by
\* their position) that is never the zero hash
Checksum(b) == BagCardinality([i \in 1..Len(b) |-> i * (b[i] + 1)]) % 10007

Sha256(b) == 1 + Checksum(b)

\* Uint256.BytesBE
BytesBE(u) == <<u \div 256, u % 256>>

\* encodeHashableFields: an error for an empty script, else Version, Nonce,
\* Sender, SystemFee, NetworkFee, ValidUntilBlock, no attributes, no
\* cosigners, and the script with its length
encodeHashableFields(t) ==
    IF Len(t.Script) = 0 THEN [err |-> TRUE, b |-> <<>>]
    ELSE [err |-> FALSE,
          b |-> <<0>> \o LEBytes(0, 4) \o LEBytes(0, 20) \o LEBytes(t.SystemFee, 8)
                  \o LEBytes(0, 8) \o LEBytes(0, 4) \o <<0>> \o <<0>>
                  \o <<Len(t.Script)>> \o t.Script]

\* GetSignedPart: nil on an error
GetSignedPart(t) ==
    LET fields == encodeHashableFields(t)
    IN  IF fields.err THEN [nil |-> TRUE, b |-> <<>>]
        ELSE [nil |-> FALSE, b |-> LEBytes(t.Network, 4) \o fields.b]

\* a variant that stores the single hash in both fields
updateHashesSingle(t, b) == [t EXCEPT !.verificationHash = Sha256(b), !.hash = Sha256(b)]

updateHashes(t, b) ==
    LET verificationHash == Sha256(b)
    IN  [t EXCEPT !.verificationHash = verificationHash,
                  !.hash = Sha256(BytesBE(verificationHash))]

createHash(t) ==
    LET b == GetSignedPart(t)
    IN  IF b.nil THEN [err |-> TRUE, t |-> t] ELSE [err |-> FALSE, t |-> updateHashes(t, b.b)]

\* Transaction.Hash and Transaction.VerificationHash: the transaction after
\* the call and the hash returned, or a panic
HashOf(t) ==
    IF t.hash = 0
    THEN (IF createHash(t).err THEN [how |-> "panic", t |-> t, res |-> 0]
          ELSE [how |-> "ok", t |-> createHash(t).t, res |-> createHash(t).t.hash])
    ELSE [how |-> "ok", t |-> t, res |-> t.hash]

VerificationHashOf(t) ==
    IF t.verificationHash = 0
    THEN (IF createHash(t).err THEN [how |-> "panic", t |-> t, res |-> 0]
          ELSE [how |-> "ok", t |-> createHash(t).t, res |-> createHash(t).t.verificationHash])
    ELSE [how |-> "ok", t |-> t, res |-> t.verificationHash]

ZeroTx == [Network |-> 0, SystemFee |-> 0, Script |-> <<>>, hash |-> 0,
           verificationHash |-> 0, Trimmed |-> FALSE]

\* the history kept with the transaction: the bytes the hashes were last
\* computed from, whether a field was assigned since, the values returned
NoHistory == [computed |-> FALSE, signed |-> <<>>, assigned |-> FALSE,
              hashes |-> {}, vhashes |-> {}]

Computed(hist, before, after) ==
    IF after.hash # before.hash \/ after.verificationHash # before.verificationHash
    THEN [hist EXCEPT !.computed = TRUE, !.signed = GetSignedPart(before).b, !.assigned = FALSE]
    ELSE hist

TxoInit ==
    /\ PoolIdle /\ NoCompare
    /\ LkIdle /\ VmcIdle /\ MstIdle /\ DspIdle /\ FndIdle /\ CstIdle /\ Part3Idle /\ Part4Idle
    /\ txo = [t |-> ZeroTx, hist |-> NoHistory, last |-> [op |-> "none", how |-> "ok", res |-> 0]]

txoRest == <<poolVars, cmpVars, lk, vmc, mst, dsp, fnd, cst, nat, inv, ldb, dcl, mcs,
            dec, dsg, srv, cns, brd>>

NewTrimmedTX(hash) ==
    /\ txo' = [t |-> [ZeroTx EXCEPT !.hash = hash, !.Trimmed = TRUE], hist |-> NoHistory,
               last |-> [op |-> "NewTrimmedTX", how |-> "ok", res |-> 0]]
    /\ UNCHANGED txoRest

New(network, script, gas) ==
    /\ txo' = [t |-> [ZeroTx EXCEPT !.Network = network, !.Script = script, !.SystemFee = gas],
               hist |-> NoHistory, last |-> [op |-> "New", how |-> "ok", res |-> 0]]
    /\ UNCHANGED txoRest

\* DecodeBinary into a fresh Transaction{Network: network}: the fields are
\* set, an empty script is an error, else the hashes are created
DecodeBinary(network, script, gas) ==
    /\ LET t == [ZeroTx EXCEPT !.Network = network, !.Script = script, !.SystemFee = gas]
       IN  IF Len(script) = 0
           THEN txo' = [t |-> t, hist |-> NoHistory,
                        last |-> [op |-> "DecodeBinary", how |-> "error", res |-> 0]]
           ELSE txo' = [t |-> createHash(t).t, hist |-> Computed(NoHistory, t, createHash(t).t),
                        last |-> [op |-> "DecodeBinary",
                                  how |-> IF createHash(t).err THEN "error" ELSE "ok", res |-> 0]]
    /\ UNCHANGED txoRest

\* an assignment to an exported field (tx.SystemFee = gasConsumed)
AssignSystemFee(gas) ==
    /\ txo.last.op # "none"
    /\ txo.t.SystemFee # gas
    /\ txo' = [txo EXCEPT !.t.SystemFee = gas, !.hist.assigned = TRUE,
                          !.last = [op |-> "Assign", how |-> "ok", res |-> 0]]
    /\ UNCHANGED txoRest

\* an assignment to Script (t.Script = tx.Script)
AssignScript(script) ==
    /\ txo.last.op # "none"
    /\ txo.t.Script # script
    /\ txo' = [txo EXCEPT !.t.Script = script, !.hist.assigned = TRUE,
                          !.last = [op |-> "Assign", how |-> "ok", res |-> 0]]
    /\ UNCHANGED txoRest

Hash ==
    /\ txo.last.op # "none"
    /\ LET r == HashOf(txo.t)
       IN  txo' = [t |-> r.t,
                   hist |-> [Computed(txo.hist, txo.t, r.t) EXCEPT
                                !.hashes = IF r.how = "ok" THEN @ \cup {r.res} ELSE @],
                   last |-> [op |-> "Hash", how |-> r.how, res |-> r.res]]
    /\ UNCHANGED txoRest

VerificationHash ==
    /\ txo.last.op # "none"
    /\ LET r == VerificationHashOf(txo.t)
       IN  txo' = [t |-> r.t,
                   hist |-> [Computed(txo.hist, txo.t, r.t) EXCEPT
                                !.vhashes = IF r.how = "ok" THEN @ \cup {r.res} ELSE @],
                   last |-> [op |-> "VerificationHash", how |-> r.how, res |-> r.res]]
    /\ UNCHANGED txoRest

TxoNext ==
    \/ \E h \in TrimmedHashes : NewTrimmedTX(h)
    \/ \E n \in Networks, s \in Scripts, g \in Gas : New(n, s, g)
    \/ \E n \in Networks, s \in Scripts, g \in Gas : DecodeBinary(n, s, g)
    \/ \E g \in Gas : AssignSystemFee(g)
    \/ \E s \in Scripts : AssignScript(s)
    \/ Hash
    \/ VerificationHash

TxoSpec == TxoInit /\ [][TxoNext]_vars

DoubleSha(b) == Sha256(BytesBE(Sha256(b)))

MaxContracts == 2
\* the maximum script size for a contract
MaxContractScriptSize == 1048576

\* a script is given by its length and a number that stands for its bytes:
\* the empty script, two scripts of one byte, a script of the greatest
\* length and a script one byte too long
ContractScript(size, body) == [size |-> size, body |-> body]
ContractScripts ==
    {ContractScript(0, 0), ContractScript(1, 1), ContractScript(1, 2),
     ContractScript(MaxContractScriptSize, 1), ContractScript(MaxContractScriptSize + 1, 1)}
NoScript == ContractScript(0, 0)
ScriptLen(script) == script.size
StorageItemKeys == {<<1>>}

\* Contract.ScriptHash: the hash160 of the script
ScriptHash(script) == 1 + Checksum(LEBytes(script.size, 3) \o <<script.body>>)

NewContract(script, hasStorage) == [ID |-> 0, Script |-> script, HasStorage |-> hasStorage]

\* dao.GetContractState: an error when nothing is stored under the hash or
\* what is stored has another script hash
GetContractState(d, hash) ==
    IF hash \notin DOMAIN d.contracts THEN [err |-> TRUE]
    ELSE IF ScriptHash(d.contracts[hash].Script) # hash THEN [err |-> TRUE]
    ELSE [err |-> FALSE, contract |-> d.contracts[hash]]

PutContractState(d, cs) ==
    [d EXCEPT !.contracts = MapPut(@, ScriptHash(cs.Script), cs)]

DeleteContractState(d, hash) ==
    [d EXCEPT !.contracts = MapDelete(@, hash)]

\* dao.GetStorageItems: the items of one contract by key
GetStorageItems(d, hash) ==
    [k \in {k \in StorageItemKeys : <<hash, k>> \in DOMAIN d.items} |-> d.items[<<hash, k>>]]

PutStorageItem(d, hash, key, si) ==
    [d EXCEPT !.items = MapPut(@, <<hash, key>>, si)]

DeleteStorageItem(d, hash, key) ==
    [d EXCEPT !.items = MapDelete(@, <<hash, key>>)]

\* createContractStateFromVM: the checks, then the contract from the script
\* and the manifest popped from the stack; pre names the check that fails
createContractStateFromVM(script, hasStorage, pre) ==
    IF ScriptLen(script) > MaxContractScriptSize THEN [err |-> "the script is too big"]
    ELSE IF pre # "ok" THEN [err |-> pre]
    ELSE [err |-> "nil", contract |-> NewContract(script, hasStorage)]

\* a variant that gives the new state an ID of its own
ReplaceStateOwnID(d, contract, newcontract) ==
    DeleteContractState(PutContractState(d, [newcontract EXCEPT !.ID = contract.ID + 1]),
                        ScriptHash(contract.Script))

\* lines 133-139 of contractUpdate: the ID is taken over, the new state is
\* put, the old state is deleted
ReplaceState(d, contract, newcontract) ==
    DeleteContractState(PutContractState(d, [newcontract EXCEPT !.ID = contract.ID]),
                        ScriptHash(contract.Script))

\* the loop of contractUpdate over the storage items of the current hash
RECURSIVE MigrateItems(_, _, _, _)
MigrateItems(d, contract, siMap, ks) ==
    IF ks = {} THEN d
    ELSE LET k == CHOOSE x \in ks : TRUE
         IN  MigrateItems(PutStorageItem(d, ScriptHash(contract.Script), k,
                                         [siMap[k] EXCEPT !.IsConst = FALSE]),
                          contract, siMap, ks \ {k})

RECURSIVE DeleteItems(_, _, _)
DeleteItems(d, hash, ks) ==
    IF ks = {} THEN d
    ELSE LET k == CHOOSE x \in ks : TRUE
         IN  DeleteItems(DeleteStorageItem(d, hash, k), hash, ks \ {k})

\* contractDestroy for the current script hash: nothing when no state is
\* stored under it, else the state and its storage items are deleted
contractDestroy(d, cur) ==
    LET cs == GetContractState(d, cur)
    IN  IF cs.err THEN d
        ELSE IF cs.contract.HasStorage
             THEN DeleteItems(DeleteContractState(d, cur), cur, DOMAIN GetStorageItems(d, cur))
             ELSE DeleteContractState(d, cur)

\* contractUpdate run by the contract with script hash cur: the error it
\* returns and the DAO it leaves (nilScript: the script popped is nil)
contractUpdate(d, cur, nilScript, script, hasStorage, pre) ==
    LET got == GetContractState(d, cur)
        created == createContractStateFromVM(script, hasStorage, pre)
    IN  IF got.err THEN [err |-> "contract doesn't exist", d |-> d]
        ELSE IF created.err # "nil" THEN [err |-> created.err, d |-> d]
        ELSE IF ~nilScript /\ (ScriptLen(script) = 0 \/ ScriptLen(script) > MaxContractScriptSize)
             THEN [err |-> "invalid script len", d |-> d]
        ELSE IF ~nilScript /\ ScriptHash(script) = ScriptHash(got.contract.Script)
             THEN [err |-> "the script is the same", d |-> d]
        ELSE IF ~nilScript /\ ~GetContractState(d, ScriptHash(script)).err
             THEN [err |-> "contract already exists", d |-> d]
        ELSE LET d1 == IF nilScript THEN d ELSE ReplaceState(d, got.contract, created.contract)
                 d2 == IF got.contract.HasStorage
                       THEN MigrateItems(d1, got.contract, GetStorageItems(d1, cur),
                                         DOMAIN GetStorageItems(d1, cur))
                       ELSE d1
             IN  [err |-> "nil", d |-> contractDestroy(d2, cur)]

EmptyDAO == [contracts |-> EmptyMap, items |-> EmptyMap, nextID |-> 1]

CstInit ==
    /\ PoolIdle /\ NoCompare
    /\ LkIdle /\ VmcIdle /\ MstIdle /\ DspIdle /\ FndIdle /\ TxoIdle /\ Part3Idle /\ Part4Idle
    /\ cst = [d |-> EmptyDAO,
              last |-> [op |-> "none", err |-> "nil", pre |-> EmptyDAO, cur |-> 0,
                        nilScript |-> FALSE, script |-> NoScript]]

cstRest == <<poolVars, cmpVars, lk, vmc, mst, dsp, fnd, txo, nat, inv, ldb, dcl, mcs,
            dec, dsg, srv, cns, brd>>

\* the DAO after a call and the record of the call (the arguments and the
\* DAO before the call are kept for a contractUpdate that succeeded)
CstAfter(op, r, cur, nilScript, script) ==
    [d |-> r.d,
     last |-> IF op = "contractUpdate" /\ r.err = "nil"
              THEN [op |-> op, err |-> r.err, pre |-> cst.d, cur |-> cur,
                    nilScript |-> nilScript, script |-> script]
              ELSE [op |-> op, err |-> r.err, pre |-> EmptyDAO, cur |-> 0,
                    nilScript |-> FALSE, script |-> NoScript]]

\* contractCreate: the state is stored under its script hash with the next ID
contractCreate(script, hasStorage, pre) ==
    /\ cst.d.nextID <= MaxContracts
    /\ LET created == createContractStateFromVM(script, hasStorage, pre)
       IN  cst' = CstAfter("contractCreate",
                    IF created.err # "nil" THEN [err |-> created.err, d |-> cst.d]
                    ELSE IF ~GetContractState(cst.d, ScriptHash(script)).err
                         THEN [err |-> "contract already exists", d |-> cst.d]
                    ELSE [err |-> "nil",
                          d |-> [PutContractState(cst.d, [created.contract EXCEPT !.ID = cst.d.nextID])
                                    EXCEPT !.nextID = @ + 1]],
                    ScriptHash(script), FALSE, script)
    /\ UNCHANGED cstRest

\* a contract with storage puts an item (constant or not) under its hash
StoragePut(hash, key, isConst) ==
    /\ ~GetContractState(cst.d, hash).err
    /\ GetContractState(cst.d, hash).contract.HasStorage
    /\ cst' = CstAfter("storagePut",
                       [err |-> "nil",
                        d |-> PutStorageItem(cst.d, hash, key, [Value |-> <<7>>, IsConst |-> isConst])],
                       hash, FALSE, NoScript)
    /\ UNCHANGED cstRest

ContractUpdate(cur, nilScript, script, hasStorage, pre) ==
    /\ nilScript => script = NoScript
    /\ cst' = CstAfter("contractUpdate",
                       contractUpdate(cst.d, cur, nilScript, script, hasStorage, pre),
                       cur, nilScript, script)
    /\ UNCHANGED cstRest

\* the checks of createContractStateFromVM on the manifest and the gas pass
\* ("ok") or one of them fails
CreateChecks == {"ok", "gas limit exceeded"}
\* the hashes of the scripts that can be deployed
DeployableHashes == {ScriptHash(s) : s \in {s \in ContractScripts :
                                              ScriptLen(s) > 0 /\ ScriptLen(s) <= MaxContractScriptSize}}

CstNext ==
    \/ \E s \in ContractScripts, hs \in BOOLEAN, pre \in CreateChecks : contractCreate(s, hs, pre)
    \/ \E h \in DeployableHashes, k \in StorageItemKeys, c \in BOOLEAN : StoragePut(h, k, c)
    \/ \E cur \in DeployableHashes, n \in BOOLEAN, s \in ContractScripts, hs \in BOOLEAN,
          pre \in CreateChecks : ContractUpdate(cur, n, s, hs, pre)

CstSpec == CstInit /\ [][CstNext]_vars

\* the last call was a contractUpdate that succeeded and replaced the script
UpdatedScript ==
    /\ cst.last.op = "contractUpdate"
    /\ cst.last.err = "nil"
    /\ ~cst.last.nilScript

\* C20: after a successful contractUpdate that replaces the script, the new
\* contract state is stored under the hash of the new script with the ID of
\* the contract updated, and no state is stored under the old script hash.
C20_UpdateKeepsID ==
    UpdatedScript =>
        LET new == ScriptHash(cst.last.script)
        IN  /\ cst.last.cur \in DOMAIN cst.last.pre.contracts
            /\ new # cst.last.cur
            /\ new \in DOMAIN cst.d.contracts
            /\ cst.d.contracts[new].Script = cst.last.script
            /\ cst.d.contracts[new].ID = cst.last.pre.contracts[cst.last.cur].ID
            /\ cst.last.cur \notin DOMAIN cst.d.contracts

\* the second contract created, one with storage items, has been updated
C20_Witness ==
    /\ UpdatedScript
    /\ cst.last.pre.contracts[cst.last.cur].ID = 2
    /\ cst.last.pre.contracts[cst.last.cur].HasStorage
    /\ <<cst.last.cur, <<1>>>> \in DOMAIN cst.last.pre.items
    /\ Cardinality(DOMAIN cst.d.contracts) = 2

\* ==========================================================================
\* Part 3a.  native.Contracts: the registered native contracts, the cached
\* persist script, and the blocks persisted with it.
\* ==========================================================================

\* how many test natives registerNative may append
MaxTestNatives == 2
\* how many blocks are persisted
MaxHeight == 2

\* The IDs of the native contracts (Test is the ID NewContractMD leaves unset).
NativeIDs ==
    [NEO |-> -1, GAS |-> -2, Policy |-> -3, Oracle |-> -4, Designate |-> -5,
     Notary |-> -101, Test |-> 0]
policyContractID == NativeIDs.Policy
oracleContractID == NativeIDs.Oracle
designateContractID == NativeIDs.Designate

\* interop.ContractMD: the name stands for the hash too (one hash per name).
ContractMD(name, id) == [Name |-> name, Hash |-> name, ContractID |-> id]
TestNativeNames == {"Test.Native.Sum", "Test.Native.Other"}

\* NewContracts: GAS, NEO, Policy, Oracle, Designate and, optionally, Notary.
NewContracts(p2pSigExtensionsEnabled) ==
    [Contracts |->
        <<ContractMD("GAS", NativeIDs.GAS), ContractMD("NEO", NativeIDs.NEO),
          ContractMD("Policy", NativeIDs.Policy), ContractMD("Oracle", NativeIDs.Oracle),
          ContractMD("Designate", NativeIDs.Designate)>>
        \o (IF p2pSigExtensionsEnabled THEN <<ContractMD("Notary", NativeIDs.Notary)>> ELSE <<>>),
     persistScript |-> "nil"]

\* What the five emit calls of one loop turn write for the contract with this hash.
EmitCall(method, hash) ==
    <<[op |-> "PUSH0", arg |-> ""], [op |-> "NEWARRAY", arg |-> ""],
      [op |-> "PUSHDATA", arg |-> method], [op |-> "APPCALL", arg |-> hash],
      [op |-> "DROP", arg |-> ""]>>

\* The loop of GetPersistScript with every contract written, none skipped.
RECURSIVE PersistLoopAll(_, _)
PersistLoopAll(contracts, i) ==
    IF i > Len(contracts) THEN <<>>
    ELSE EmitCall("onPersist", contracts[i].Hash) \o PersistLoopAll(contracts, i + 1)

\* The loop of GetPersistScript over cs.Contracts[i:].
RECURSIVE PersistLoop(_, _)
PersistLoop(contracts, i) ==
    IF i > Len(contracts) THEN <<>>
    ELSE LET md == contracts[i]
         IN  IF \/ md.ContractID = policyContractID
                \/ md.ContractID = oracleContractID
                \/ md.ContractID = designateContractID
             THEN PersistLoop(contracts, i + 1)
             ELSE EmitCall("onPersist", md.Hash) \o PersistLoop(contracts, i + 1)

\* GetPersistScript: the cached script if there is one, or else a new one, cached.
GetPersistScriptOf(cs) ==
    IF cs.persistScript # "nil" THEN [cs |-> cs, script |-> cs.persistScript, built |-> FALSE]
    ELSE LET w == PersistLoop(cs.Contracts, 1)
         IN  [cs |-> [cs EXCEPT !.persistScript = w], script |-> w, built |-> TRUE]

\* Running a persist script for a block: every APPCALL of a pushed method
\* name invokes that method of the contract, with the trigger and the block.
RECURSIVE RunPersist(_, _, _, _)
RunPersist(script, i, trig, index) ==
    IF i > Len(script) THEN <<>>
    ELSE IF script[i].op = "APPCALL"
         THEN <<[contract |-> script[i].arg, method |-> script[i - 1].arg,
                 trigger |-> trig, index |-> index]>>
              \o RunPersist(script, i + 1, trig, index)
         ELSE RunPersist(script, i + 1, trig, index)

NatInit ==
    /\ PoolIdle /\ NoCompare /\ Part2Idle /\ Part4Idle
    /\ InvIdle /\ LdbIdle /\ DclIdle /\ McsIdle
    /\ \E p2p \in BOOLEAN :
          nat = [cs |-> NewContracts(p2p), builtFrom |-> <<>>, height |-> 0,
                 calls |-> <<>>, registered |-> <<>>,
                 last |-> [op |-> "NewContracts", script |-> <<>>]]

natRest == <<poolVars, cmpVars, lk, vmc, mst, dsp, fnd, txo, cst, inv, ldb, dcl, mcs,
            dec, dsg, srv, cns, brd>>

\* bc.registerNative(c): append to bc.contracts.Contracts.
RegisterNative(name) ==
    /\ Len(nat.cs.Contracts) < 6 + MaxTestNatives
    /\ \A i \in 1..Len(nat.cs.Contracts) : nat.cs.Contracts[i].Name # name
    /\ nat' = [nat EXCEPT
                 !.cs.Contracts = Append(@, ContractMD(name, NativeIDs.Test)),
                 !.last = [op |-> "registerNative", script |-> <<>>]]
    /\ UNCHANGED natRest

\* cs.GetPersistScript()
GetPersistScript ==
    /\ LET r == GetPersistScriptOf(nat.cs)
       IN  nat' = [nat EXCEPT
                     !.cs = r.cs,
                     !.builtFrom = IF r.built THEN nat.cs.Contracts ELSE @,
                     !.last = [op |-> "GetPersistScript", script |-> r.script]]
    /\ UNCHANGED natRest

\* Persisting the next block: the persist script is run once with the
\* OnPersist trigger and the block.
StoreBlock ==
    /\ nat.height < MaxHeight
    /\ LET r == GetPersistScriptOf(nat.cs)
       IN  nat' = [nat EXCEPT
                     !.cs = r.cs,
                     !.builtFrom = IF r.built THEN nat.cs.Contracts ELSE @,
                     !.height = @ + 1,
                     !.registered = nat.cs.Contracts,
                     !.calls = RunPersist(r.script, 1, "OnPersist", nat.height + 1),
                     !.last = [op |-> "storeBlock", script |-> r.script]]
    /\ UNCHANGED natRest

NatNext ==
    \/ \E name \in TestNativeNames : RegisterNative(name)
    \/ GetPersistScript
    \/ StoreBlock

NatSpec == NatInit /\ [][NatNext]_vars

\* The contracts GetPersistScript leaves out.
NotPersisted(md) ==
    md.ContractID \in {policyContractID, oracleContractID, designateContractID}

\* One onPersist call per contract of the list, in the order of the list.
OnPersistCalls(contracts) ==
    [k \in 1..(5 * Len(contracts)) |->
        EmitCall("onPersist", contracts[((k - 1) \div 5) + 1].Hash)[((k - 1) % 5) + 1]]

KeptContracts(contracts) == SelectSeq(contracts, LAMBDA md : ~NotPersisted(md))

CallsOf(name) == SelectSeq(nat.calls, LAMBDA c : c.contract = name /\ c.method = "onPersist")

\* C22: when a block is persisted, onPersist of every native contract
\* registered at that moment is invoked exactly once, with the OnPersist
\* trigger and the index of the block being persisted.
C22_OnPersistOncePerBlock ==
    nat.last.op = "storeBlock" =>
        \A i \in 1..Len(nat.registered) :
            /\ Len(CallsOf(nat.registered[i].Name)) = 1
            /\ CallsOf(nat.registered[i].Name)[1].trigger = "OnPersist"
            /\ CallsOf(nat.registered[i].Name)[1].index = nat.height

\* The same for the test natives only (none of them has a left-out ID).
C22_TestNativeOncePerBlock ==
    nat.last.op = "storeBlock" =>
        \A i \in 1..Len(nat.registered) :
            nat.registered[i].ContractID = NativeIDs.Test =>
                Len(CallsOf(nat.registered[i].Name)) = 1

\* ==========================================================================
\* Part 3b.  One invocation of a method of the test native contract under a
\* gas limit (invokeContractMethod of TestNativeContract_Invoke).
\* ==========================================================================

\* gas limits are tried up to this far on either side of the total price
MaxSlack == 2
\* the addends are 14, 28 and the numbers up to this one
MaxAddend == 1

testSumPrice == 1000000

\* The prices charged for the calling instructions and for System.Contract.Call.
Prices ==
    [PUSHINT8 |-> 30, PUSH2 |-> 30, PACK |-> 15000, PUSHDATA1 |-> 180, SYSCALL |-> 0,
     ContractCall |-> 1000000]

Addends == {14, 28} \cup (0..MaxAddend)

\* The script calling method(addend1, addend2) of the contract: the arguments
\* pushed last first and packed, the method, the hash, the call.
CallScript(hash, method, addend1, addend2) ==
    <<[op |-> "PUSHINT8", arg |-> addend2], [op |-> "PUSHINT8", arg |-> addend1],
      [op |-> "PUSH2", arg |-> 2], [op |-> "PACK", arg |-> 0],
      [op |-> "PUSHDATA1", arg |-> method], [op |-> "PUSHDATA1", arg |-> hash],
      [op |-> "SYSCALL", arg |-> "System.Contract.Call"]>>

RECURSIVE ScriptPrice(_, _)
ScriptPrice(script, i) ==
    IF i > Len(script) THEN 0 ELSE Prices[script[i].op] + ScriptPrice(script, i + 1)

\* What one successful call of sum costs in all.
TotalPrice ==
    ScriptPrice(CallScript("Test.Native.Sum", "sum", 14, 28), 1)
    + Prices.ContractCall + testSumPrice

GasLimits ==
    {2 * testSumPrice + 18000, 2 * testSumPrice + 8000}
    \cup {TotalPrice + d : d \in 0..MaxSlack}
    \cup {TotalPrice - d : d \in 1..MaxSlack}

\* The mutant of sum: the first addend alone.
sumFirstOnly(args) == args[1]

\* testNative.sum: args[0] + args[1].
sum(args) == args[1] + args[2]

\* vm.AddGas: add to the gas consumed; false when the limit is exceeded.
AddGas(v, gas) ==
    [v |-> [v EXCEPT !.gasConsumed = @ + gas], ok |-> v.gasConsumed + gas <= v.GasLimit]

NewVM(script, limit) ==
    [script |-> script, ip |-> 1, estack |-> <<>>, gasConsumed |-> 0, GasLimit |-> limit,
     state |-> "none", returned |-> "none"]

Fault(v) == [v EXCEPT !.state = "fault"]

\* The estack after one of the pushing instructions (the top is the head).
Pushed(v, instr) ==
    IF instr.op = "PACK"
    THEN LET n == v.estack[1]
         IN  <<SubSeq(v.estack, 2, n + 1)>> \o SubSeq(v.estack, n + 2, Len(v.estack))
    ELSE <<instr.arg>> \o v.estack

InvInit ==
    /\ PoolIdle /\ NoCompare /\ Part2Idle /\ Part4Idle
    /\ NatIdle /\ LdbIdle /\ DclIdle /\ McsIdle
    /\ \E limit \in GasLimits, addend1 \in Addends, addend2 \in Addends :
          inv = NewVM(CallScript("Test.Native.Sum", "sum", addend1, addend2), limit)

invRest == <<poolVars, cmpVars, lk, vmc, mst, dsp, fnd, txo, cst, nat, ldb, dcl, mcs,
            dec, dsg, srv, cns, brd>>

Running == inv.state = "none" /\ inv.ip <= Len(inv.script)

\* One turn of Run() on an instruction that pushes: charge, then execute.
ExecutePush ==
    /\ Running
    /\ inv.script[inv.ip].op # "SYSCALL"
    /\ LET instr == inv.script[inv.ip]
           g == AddGas(inv, Prices[instr.op])
       IN  inv' = IF ~g.ok THEN Fault(g.v)
                   ELSE [g.v EXCEPT !.estack = Pushed(g.v, instr), !.ip = @ + 1]
    /\ UNCHANGED invRest

\* One turn of Run() on SYSCALL System.Contract.Call: the price of the call,
\* then the native method: its price, then its function, its result pushed.
ExecuteContractCall ==
    /\ Running
    /\ inv.script[inv.ip].op = "SYSCALL"
    /\ LET g1 == AddGas(inv, Prices.SYSCALL + Prices.ContractCall)
           args == inv.estack[3]
           g2 == AddGas(g1.v, testSumPrice)
       IN  inv' = IF ~g1.ok THEN Fault(g1.v)
                   ELSE IF ~g2.ok THEN Fault(g2.v)
                   ELSE [g2.v EXCEPT !.estack = <<sum(args)>>, !.returned = sum(args),
                                     !.ip = @ + 1]
    /\ UNCHANGED invRest

\* The end of the script: the implicit RET of the last context halts the VM.
ExecuteRet ==
    /\ inv.state = "none" /\ inv.ip > Len(inv.script)
    /\ inv' = [inv EXCEPT !.state = "halt"]
    /\ UNCHANGED invRest

InvNext == ExecutePush \/ ExecuteContractCall \/ ExecuteRet

InvSpec == InvInit /\ [][InvNext]_vars

Finished == inv.state \in {"halt", "fault"}
Addend1 == inv.script[2].arg
Addend2 == inv.script[1].arg

\* C23: sum(14, 28) invoked with a gas limit that covers the price of the
\* method plus the price of the calling instructions halts with 42 on the
\* stack; with a limit below that total it faults and returns no result.
C23_SumHaltsOrFaults ==
    Finished =>
        /\ inv.GasLimit >= TotalPrice =>
              /\ inv.state = "halt"
              /\ inv.estack = <<Addend1 + Addend2>>
              /\ (Addend1 = 14 /\ Addend2 = 28) => inv.estack = <<42>>
        /\ inv.GasLimit < TotalPrice =>
              /\ inv.state = "fault"
              /\ inv.returned = "none"

\* sum(14, 28) has halted with a limit that just covers the total.
C23_Witness ==
    /\ inv.state = "halt" /\ inv.GasLimit = TotalPrice
    /\ Addend1 = 14 /\ Addend2 = 28 /\ inv.estack = <<42>>

\* sum(14, 28) has faulted with the limit of the test, below the total.
C23_FaultWitness ==
    /\ inv.state = "fault" /\ inv.GasLimit = 2 * testSumPrice + 8000
    /\ Addend1 = 14 /\ Addend2 = 28

\* ==========================================================================
\* Part 3c.  storage.LevelDBStore: the handle NewLevelDBStore opens, the
\* context it is given and the goroutine that closes the handle.
\* ==========================================================================

\* A variant of the wait that does not wait for the context.
ctxDoneAnyway(ctx) == TRUE

\* <-ctx.Done() can return: the context has been cancelled.
ctxDone(ctx) == ctx = "cancelled"

\* What a call on the handle returns once the handle is closed.
ErrClosed == "leveldb: closed"

LdbInit ==
    /\ PoolIdle /\ NoCompare /\ Part2Idle /\ Part4Idle
    /\ NatIdle /\ InvIdle /\ DclIdle /\ McsIdle
    /\ ldb = [ctx |-> "live", db |-> "none", gor |-> "none", data |-> EmptyMap,
              last |-> [op |-> "none", err |-> "nil", ret |-> 0]]

ldbRest == <<poolVars, cmpVars, lk, vmc, mst, dsp, fnd, txo, cst, nat, inv, dcl, mcs,
            dec, dsg, srv, cns, brd>>

\* NewLevelDBStore(ctx, cfg): leveldb.OpenFile, then the goroutine is started.
NewLevelDBStore(openFails) ==
    /\ ldb.last.op = "none"
    /\ ldb' = IF openFails
              THEN [ldb EXCEPT !.last = [op |-> "NewLevelDBStore", err |-> "open", ret |-> 0]]
              ELSE [ldb EXCEPT !.db = "open", !.gor = "waiting",
                               !.last = [op |-> "NewLevelDBStore", err |-> "nil", ret |-> 0]]
    /\ UNCHANGED ldbRest

\* The owner of the context cancels it (before or after the store is opened).
Cancel ==
    /\ ldb.ctx = "live"
    /\ ldb' = [ldb EXCEPT !.ctx = "cancelled"]
    /\ UNCHANGED ldbRest

\* The goroutine: <-ctx.Done() returns.
GoroutineWake ==
    /\ ldb.gor = "waiting"
    /\ ctxDone(ldb.ctx)
    /\ ldb' = [ldb EXCEPT !.gor = "woken"]
    /\ UNCHANGED ldbRest

\* The goroutine: db.Close().
GoroutineClose ==
    /\ ldb.gor = "woken"
    /\ ldb' = [ldb EXCEPT !.gor = "done", !.db = "closed"]
    /\ UNCHANGED ldbRest

\* LevelDBStore.Put
LdbPut(key, value) ==
    /\ ldb.db \in {"open", "closed"}
    /\ ldb' = IF ldb.db = "open"
              THEN [ldb EXCEPT !.data = MapPut(@, key, value),
                               !.last = [op |-> "Put", err |-> "nil", ret |-> 0]]
              ELSE [ldb EXCEPT !.last = [op |-> "Put", err |-> ErrClosed, ret |-> 0]]
    /\ UNCHANGED ldbRest

\* LevelDBStore.Get
LdbGet(key) ==
    /\ ldb.db \in {"open", "closed"}
    /\ ldb' = IF ldb.db = "closed"
              THEN [ldb EXCEPT !.last = [op |-> "Get", err |-> ErrClosed, ret |-> 0]]
              ELSE IF key \in DOMAIN ldb.data
              THEN [ldb EXCEPT !.last = [op |-> "Get", err |-> "nil", ret |-> ldb.data[key]]]
              ELSE [ldb EXCEPT !.last = [op |-> "Get", err |-> ErrKeyNotFound, ret |-> 0]]
    /\ UNCHANGED ldbRest

LdbNext ==
    \/ \E openFails \in BOOLEAN : NewLevelDBStore(openFails)
    \/ Cancel
    \/ GoroutineWake
    \/ GoroutineClose
    \/ \E k \in StoreKeys, v \in StoreValues : LdbPut(k, v)
    \/ \E k \in StoreKeys : LdbGet(k)

LdbSpec == LdbInit /\ [][LdbNext]_vars

\* The goroutine is scheduled: a step of it that stays possible is taken.
LdbLiveSpec == LdbSpec /\ WF_vars(GoroutineWake) /\ WF_vars(GoroutineClose)

\* C24: the handle NewLevelDBStore opened is closed after the context is
\* cancelled, and it is never closed while the context is live.
C24_ClosedAfterCancelOnly ==
    /\ [](ldb.db = "closed" => ldb.ctx = "cancelled")
    /\ ((ldb.db = "open" /\ ldb.ctx = "cancelled") ~> ldb.db = "closed")

\* The handle was used, the context was cancelled, the goroutine closed it.
C24_Witness ==
    /\ ldb.db = "closed" /\ ldb.gor = "done" /\ ldb.ctx = "cancelled"
    /\ DOMAIN ldb.data # {}
    /\ ldb.last.err = ErrClosed

\* ==========================================================================
\* Part 3d.  Further properties of the memory pool and of item.CompareTo.
\* ==========================================================================

\* C25: an Add that returns an error leaves the pool as it was: Count,
\* ContainsKey and TryGetValue of every hash and GetVerifiedTransactions
\* answer as before the call (so a later Add is judged as if the failed one
\* had not been made).
C25_FailedAddChangesNothing ==
    (last.op = "Add" /\ last.res # ErrNil)
        => /\ Count = count(last.preTxes)
           /\ GetVerifiedTransactions = [i \in 1..Len(last.preTxes) |-> last.preTxes[i].txn]
           /\ \A h \in Hashes :
                 /\ ContainsKey(h) <=> containsKey(last.preMap, h)
                 /\ TryGetValue(h) = (IF h \in DOMAIN last.preMap
                                      THEN last.preMap[h].txn ELSE NilItem)

\* The same for the two errors returned before the hash map is written.
C25_RejectedAddChangesNothing ==
    (last.op = "Add" /\ last.res \in {ErrConflict, ErrDup})
        => /\ verifiedTxes = last.preTxes
           /\ verifiedMap = last.preMap

\* C26: Count never exceeds the capacity given to NewMemPool, capacity 0
\* included.
C26_CountWithinCapacity == Count <= capacity

\* A full pool took a better transaction in and is still exactly full.
C26_Witness ==
    /\ capacity = MaxCapacity /\ Count = capacity
    /\ last.op = "Add" /\ last.res = ErrNil /\ Len(last.preTxes) = capacity

\* A pool of capacity 0 turned a transaction away.
C26_ZeroWitness ==
    /\ capacity = 0 /\ Count = 0
    /\ last.op = "Add" /\ last.res = ErrOOM

\* The items a compared pair is set against (CompareTo reads neither the
\* inputs nor the time stamp).
ThirdItems == {c \in ItemUniverse : c.timeStamp = 0 /\ c.txn.Inputs = <<>>}

SpentItems == SUBSET (0..MaxCoins)
\* the stores of records: a record for some of the previous transactions
SpentStores == UNION {[hs -> SpentItems] : hs \in SUBSET PrevHashes}

\* GetSpentCoinState fails for a previous transaction without a record
HasSpent(spent, prevHash) == prevHash \in DOMAIN spent

\* the inner loop: an input of the group is not among the items
GroupUnrecorded(items, inputs) ==
    \E i \in DOMAIN inputs : inputs[i].PrevIndex \notin items

\* a variant of the outer loop that passes over a missing record
RECURSIVE DoubleClaimLoopSkipMissing(_, _, _)
DoubleClaimLoopSkipMissing(spent, groups, g) ==
    IF g > Len(groups) THEN FALSE
    ELSE LET prevHash == groups[g][1].PrevHash
         IN  IF ~HasSpent(spent, prevHash)
             THEN DoubleClaimLoopSkipMissing(spent, groups, g + 1)
             ELSE IF GroupUnrecorded(spent[prevHash], groups[g]) THEN TRUE
             ELSE DoubleClaimLoopSkipMissing(spent, groups, g + 1)

\* the outer loop from group g on
RECURSIVE DoubleClaimLoop(_, _, _)
DoubleClaimLoop(spent, groups, g) ==
    IF g > Len(groups) THEN FALSE
    ELSE LET prevHash == groups[g][1].PrevHash
         IN  IF ~HasSpent(spent, prevHash) THEN TRUE
             ELSE IF GroupUnrecorded(spent[prevHash], groups[g]) THEN TRUE
             ELSE DoubleClaimLoop(spent, groups, g + 1)

IsDoubleClaimOf(spent, claims) ==
    IF Len(claims) = 0 THEN FALSE
    ELSE DoubleClaimLoop(spent, GroupInputsByPrevHash(claims), 1)

DclInit ==
    /\ PoolIdle /\ NoCompare /\ Part2Idle /\ Part4Idle
    /\ NatIdle /\ InvIdle /\ LdbIdle /\ McsIdle
    /\ \E spent \in SpentStores :
          dcl = [spent |-> spent, Claims |-> <<>>, res |-> FALSE, done |-> FALSE]

dclRest == <<poolVars, cmpVars, lk, vmc, mst, dsp, fnd, txo, cst, nat, inv, ldb, mcs,
            dec, dsg, srv, cns, brd>>

\* dao.IsDoubleClaim(claim) for a claim transaction with the inputs claims
IsDoubleClaim(claims) ==
    /\ ~dcl.done
    /\ dcl' = [dcl EXCEPT !.Claims = claims, !.res = IsDoubleClaimOf(dcl.spent, claims),
                          !.done = TRUE]
    /\ UNCHANGED dclRest

DclNext == \E claims \in InputLists : IsDoubleClaim(claims)

DclSpec == DclInit /\ [][DclNext]_vars

\* claimed input i is recorded in the spent-coin state of its PrevHash
RecordedSpent(i) ==
    LET in == dcl.Claims[i]
    IN  /\ in.PrevHash \in DOMAIN dcl.spent
        /\ in.PrevIndex \in dcl.spent[in.PrevHash]

\* C28: IsDoubleClaim(claim) is false exactly when every claimed input is
\* recorded in the stored spent-coin state of its PrevHash; a missing state
\* or a state without the claimed index makes it true.
C28_FalseIffAllRecorded ==
    dcl.done => (dcl.res = FALSE <=> \A i \in DOMAIN dcl.Claims : RecordedSpent(i))

\* Two claimed inputs of different transactions: the first is recorded, the
\* state of the second is missing, and the claim is a double claim.
C28_Witness ==
    /\ dcl.done /\ dcl.res = TRUE
    /\ Len(dcl.Claims) = 2
    /\ RecordedSpent(1)
    /\ dcl.Claims[2].PrevHash \notin DOMAIN dcl.spent

\* ==========================================================================
\* Part 3f.  storage.MemoryStore under concurrent callers: the store's
\* sync.RWMutex, and goroutines each making one call after another.
\* Goroutine t always puts the value t.
\* ==========================================================================

\* goroutines calling the store
NumCallers == 2

Callers == 1..NumCallers
McsKeys == {<<1>>, <<1, 2>>}
McsPrefixes == {<<>>, <<1, 2>>}
McsMethods == {"Get", "Put", "Delete", "PutBatch", "Seek", "Persist", "Close"}

\* What each method does with s.mut before it touches s.mem or s.del
\* (PutBatch locks inside the Delete and the Put it calls).
MutKind(m) ==
    CASE m = "Get" -> "RLock"
      [] m \in {"Put", "Delete", "PutBatch", "Persist", "Close"} -> "Lock"
      [] m = "Seek" -> "none"

NoCaller == [m |-> "none", pc |-> "out", key |-> <<>>, part |-> "", visited |-> {}, seen |-> <<>>]

McsInit ==
    /\ PoolIdle /\ NoCompare /\ Part2Idle /\ Part4Idle
    /\ NatIdle /\ InvIdle /\ LdbIdle /\ DclIdle
    /\ mcs = [mut |-> [w |-> 0, r |-> {}], mem |-> EmptyMap, del |-> {}, isNil |-> FALSE,
              fatal |-> FALSE, thr |-> [t \in Callers |-> NoCaller]]

mcsRest == <<poolVars, cmpVars, lk, vmc, mst, dsp, fnd, txo, cst, nat, inv, ldb, dcl,
            dec, dsg, srv, cns, brd>>

\* The part of a call that runs next under its own hold of the mutex.
CallPart(c) == IF c.m = "PutBatch" THEN c.part ELSE c.m

\* A goroutine enters a method.  Seek starts its range loop at once.
McsCall(t, m, key) ==
    /\ ~mcs.fatal
    /\ mcs.thr[t].pc = "out"
    /\ m = "Seek" => key \in McsPrefixes
    /\ m # "Seek" => key \in McsKeys
    /\ mcs' = [mcs EXCEPT !.thr[t] =
                 [m |-> m, pc |-> IF MutKind(m) = "none" THEN "range" ELSE "want", key |-> key,
                  part |-> IF m = "PutBatch" THEN "Delete" ELSE "", visited |-> {},
                  seen |-> <<>>]]
    /\ UNCHANGED mcsRest

\* s.mut.Lock() or s.mut.RLock() returns.
McsAcquire(t) ==
    /\ ~mcs.fatal
    /\ mcs.thr[t].pc = "want"
    /\ IF MutKind(mcs.thr[t].m) = "RLock"
       THEN /\ mcs.mut.w = 0
            /\ mcs' = [mcs EXCEPT !.mut.r = @ \cup {t}, !.thr[t].pc = "cs"]
       ELSE /\ mcs.mut.w = 0 /\ mcs.mut.r = {}
            /\ mcs' = [mcs EXCEPT !.mut.w = t, !.thr[t].pc = "cs"]
    /\ UNCHANGED mcsRest

\* The body of Get, Put, Delete, Persist or Close between lock and unlock.
\* Put and Delete on a closed store write into a nil map, which panics.
McsBody(t, fails) ==
    /\ ~mcs.fatal
    /\ mcs.thr[t].pc = "cs"
    /\ LET c == mcs.thr[t]
           s == [mem |-> mcs.mem, del |-> mcs.del]
           part == CallPart(c)
       IN  /\ fails => part = "Persist"
           /\ mcs' =
                CASE part = "Get" -> [mcs EXCEPT !.thr[t].pc = "unlock"]
                  [] part \in {"Put", "Delete"} /\ mcs.isNil -> [mcs EXCEPT !.fatal = TRUE]
                  [] part = "Put" /\ ~mcs.isNil ->
                       [mcs EXCEPT !.mem = StorePut(s, c.key, t).mem,
                                   !.del = StorePut(s, c.key, t).del,
                                   !.thr[t].pc = "unlock"]
                  [] part = "Delete" /\ ~mcs.isNil ->
                       [mcs EXCEPT !.mem = StoreDelete(s, c.key).mem,
                                   !.del = StoreDelete(s, c.key).del,
                                   !.thr[t].pc = "unlock"]
                  [] part = "Persist" ->
                       [mcs EXCEPT !.mem = PersistOverlay(s, IF fails THEN ErrPutBatch ELSE "nil").mem,
                                   !.del = PersistOverlay(s, IF fails THEN ErrPutBatch ELSE "nil").del,
                                   !.isNil = IF fails THEN @ ELSE FALSE,
                                   !.thr[t].pc = "unlock"]
                  [] part = "Close" ->
                       [mcs EXCEPT !.mem = EmptyMap, !.del = {}, !.isNil = TRUE,
                                   !.thr[t].pc = "unlock"]
    /\ UNCHANGED mcsRest

\* s.mut.Unlock() or s.mut.RUnlock(); PutBatch goes on from its Delete to
\* its Put.
McsRelease(t) ==
    /\ ~mcs.fatal
    /\ mcs.thr[t].pc = "unlock"
    /\ LET c == mcs.thr[t]
           next == IF c.m = "PutBatch" /\ c.part = "Delete"
                   THEN [c EXCEPT !.pc = "want", !.part = "Put"]
                   ELSE NoCaller
       IN  mcs' = [mcs EXCEPT
                     !.mut.w = IF @ = t THEN 0 ELSE @,
                     !.mut.r = @ \ {t},
                     !.thr[t] = next]
    /\ UNCHANGED mcsRest

\* goroutine t is about to write s.mem or s.del inside its locked section
WritingMem(t) ==
    /\ mcs.thr[t].pc = "cs"
    /\ CallPart(mcs.thr[t]) \in {"Put", "Delete", "Persist", "Close"}

\* One turn of the range loop of Seek: the next key of s.mem, read without
\* any hold of the mutex; f is called if the key has the prefix.  A turn
\* taken while another goroutine writes the map is a data race: it reads
\* some key, or the runtime stops the program.
SeekVisit(t) ==
    /\ ~mcs.fatal
    /\ mcs.thr[t].pc = "range"
    /\ \/ \E k \in (DOMAIN mcs.mem) \ mcs.thr[t].visited :
             mcs' = [mcs EXCEPT
                       !.thr[t].visited = @ \cup {k},
                       !.thr[t].seen = IF HasPrefix(k, mcs.thr[t].key)
                                       THEN Append(@, <<k, mcs.mem[k]>>) ELSE @]
       \/ /\ \E u \in Callers \ {t} : WritingMem(u)
          /\ mcs' = [mcs EXCEPT !.fatal = TRUE]
    /\ UNCHANGED mcsRest

\* The range loop of Seek finds no further key and Seek returns.
SeekReturn(t) ==
    /\ ~mcs.fatal
    /\ mcs.thr[t].pc = "range"
    /\ (DOMAIN mcs.mem) \ mcs.thr[t].visited = {}
    /\ mcs' = [mcs EXCEPT !.thr[t] = NoCaller]
    /\ UNCHANGED mcsRest

McsNext ==
    \/ \E t \in Callers, m \in McsMethods, key \in McsKeys \cup McsPrefixes : McsCall(t, m, key)
    \/ \E t \in Callers : McsAcquire(t)
    \/ \E t \in Callers, fails \in BOOLEAN : McsBody(t, fails)
    \/ \E t \in Callers : McsRelease(t)
    \/ \E t \in Callers : SeekVisit(t)
    \/ \E t \in Callers : SeekReturn(t)

McsSpec == McsInit /\ [][McsNext]_vars

\* C29: a Seek running concurrently with Put, Delete, PutBatch, Persist or
\* Close never reads the key map while it is being modified.
C29_SeekNeverReadsDuringWrite ==
    \A t, u \in Callers :
        (t # u /\ mcs.thr[t].m = "Seek" /\ mcs.thr[t].pc = "range") => ~WritingMem(u)

\* The same for Get, which takes the read lock.
GetNeverReadsDuringWrite ==
    \A t, u \in Callers :
        (t # u /\ mcs.thr[t].m = "Get" /\ mcs.thr[t].pc = "cs") => ~WritingMem(u)

\* ==========================================================================
\* Part 3g.  What a successful Persist leaves in the underlying store.
\* ==========================================================================

\* ps.Get(key) on the underlying store
PsGet(key) ==
    IF key \in DOMAIN mst.ps THEN [val |-> mst.ps[key], err |-> "nil"]
    ELSE [val |-> 0, err |-> ErrKeyNotFound]

\* C30: after a Persist that returns no error the overlay holds no pending
\* put and no pending delete, and the underlying store returns the pending
\* value for every key that had a pending put and reports every key that had
\* a pending delete as not found.
C30_PersistedReadsBack ==
    (mst.last.op = "Persist" /\ mst.last.err = "nil") =>
        /\ OverlayEmpty(Overlay)
        /\ \A k \in DOMAIN mst.last.pre.mem : PsGet(k) = [val |-> mst.last.pre.mem[k], err |-> "nil"]
        /\ \A k \in mst.last.pre.del : PsGet(k).err = ErrKeyNotFound

\* A successful Persist of one put and of a delete of another key, with a
\* third key left in the underlying store by an earlier Persist.
C30_Witness ==
    /\ mst.last.op = "Persist" /\ mst.last.err = "nil"
    /\ DOMAIN mst.last.pre.mem = {<<1>>} /\ mst.last.pre.mem[<<1>>] = 1
    /\ mst.last.pre.del = {<<2>>}
    /\ DOMAIN mst.ps = {<<1>>, <<1, 2>>}

\* ==========================================================================
\* Part 4a.  Context.CurrInstr after Context.Next.
\* ==========================================================================

\* C31: at every instruction pointer a Context reaches through calls to Next
\* alone, CurrInstr returns without reading outside the program buffer, also
\* after Next returned RET at the end of the program and for an empty program.
C31_CurrInstrStaysInside ==
    (vmc.last.op = "CurrInstr" /\ vmc.viaNext) =>
        /\ vmc.last.res.how = "ok"
        /\ vmc.last.res.touched \subseteq 0..(Len(vmc.last.pre.prog) - 1)

\* The same while the instruction pointer is inside the program or still -1.
C31_CurrInstrInsideProgram ==
    (vmc.last.op = "CurrInstr" /\ vmc.last.pre.ip < Len(vmc.last.pre.prog)) =>
        /\ vmc.last.res.how = "ok"
        /\ vmc.last.res.touched \subseteq 0..(Len(vmc.last.pre.prog) - 1)


\* ------------------------------------------------------------------
\* Part 4b. The Find iterator: Next, and the order of the items
\* ------------------------------------------------------------------

\* C32: the k-th call of Next on an iterator returns true exactly when
\* k <= len(m), and the index of the iterator never exceeds len(m).
C32_NextTrueExactlyLenTimes ==
    fnd.found =>
        /\ fnd.it.index <= Len(fnd.it.m)
        /\ fnd.last.op = "Next" => (fnd.last.ret <=> fnd.calls <= Len(fnd.it.m))

\* Next was called past the end of a non-empty map
C32_Witness ==
    /\ fnd.found /\ fnd.last.op = "Next"
    /\ Len(fnd.it.m) >= 2
    /\ fnd.calls >= Len(fnd.it.m) + 2
    /\ ~fnd.last.ret

\* the keys of the map are strictly ascending under bytes.Compare
Ascending(m) ==
    \A i, j \in DOMAIN m : i < j => BytesCompare(m[i].Key.v, m[j].Key.v) = -1

FeeBits == 3
\* the most cosigners a transaction may carry (16 in the source)
MaxCosigners == 2
NumAccounts == 2

Pow2(n) == IF n = 0 THEN 1 ELSE IF n = 1 THEN 2 ELSE IF n = 2 THEN 4 ELSE IF n = 3 THEN 8
           ELSE IF n = 4 THEN 16 ELSE IF n = 5 THEN 32 ELSE 64
MaxInt64 == Pow2(FeeBits - 1) - 1

\* int64(u) of an unsigned value of the width
ToInt64(u) == IF u >= Pow2(FeeBits - 1) THEN u - Pow2(FeeBits) ELSE u

\* a + b in int64: the sum wraps around
AddInt64(a, b) == ToInt64((a + b + Pow2(FeeBits)) % Pow2(FeeBits))

\* the fields of the stream that decide the result, in the order they are
\* read: version, system fee, network fee, cosigners, script, witnesses;
\* avail is the number of fields the stream holds before it ends
DecStreams ==
    [avail : 0..6, version : 0..1,
     sysfee : 0..(Pow2(FeeBits) - 1), netfee : 0..(Pow2(FeeBits) - 1),
     cosigners : UNION {[1..n -> 1..NumAccounts] : n \in 0..(MaxCosigners + 1)},
     script : {<<>>, <<1>>}]

NoErr == "nil"
ErrEOF == "EOF"

\* a read of field i of the stream by io.BinReader: nothing is read and the
\* zero value comes back once Err is set; a read past the end sets Err
ReadField(in, err, i, value, zero) ==
    IF err # NoErr THEN [v |-> zero, err |-> err]
    ELSE IF i > in.avail THEN [v |-> zero, err |-> ErrEOF]
    ELSE [v |-> value, err |-> NoErr]

\* BinReader.ReadArray(&t.Cosigners, MaxCosigners): an array longer than the
\* maximum is an error
ReadArrayMax(in, err, i, value, max) ==
    LET r == ReadField(in, err, i, value, <<>>)
    IN  IF r.err = NoErr /\ Len(r.v) > max
        THEN [v |-> <<>>, err |-> "array too long"]
        ELSE r

\* a variant of the overflow test that never finds an overflow
FeesOverflowNever(sys, net) == FALSE

\* line 139: t.NetworkFee+t.SystemFee < t.SystemFee
FeesOverflow(sys, net) == AddInt64(net, sys) < sys

\* lines 151-158: two cosigners with the same account
DuplicateCosigners(cs) ==
    \E i, j \in DOMAIN cs : i < j /\ cs[i] = cs[j]

DecResult(err, ver, sys, net, cs, script) ==
    [err |-> err,
     tx |-> [Version |-> ver, SystemFee |-> sys, NetworkFee |-> net,
             Cosigners |-> cs, Script |-> script]]

\* Transaction.decodeHashableFields
decodeHashableFields(in) ==
    LET ver == ReadField(in, NoErr, 1, in.version, 0)
        sys == ReadField(in, ver.err, 2, ToInt64(in.sysfee), 0)
        net == ReadField(in, sys.err, 3, ToInt64(in.netfee), 0)
        cs  == ReadArrayMax(in, net.err, 4, in.cosigners, MaxCosigners)
        scr == ReadField(in, cs.err, 5, in.script, <<>>)
    IN  IF ver.v > 0
        THEN DecResult("only version 0 is supported", ver.v, 0, 0, <<>>, <<>>)
        ELSE IF sys.v < 0
        THEN DecResult("negative system fee", ver.v, sys.v, 0, <<>>, <<>>)
        ELSE IF net.v < 0
        THEN DecResult("negative network fee", ver.v, sys.v, net.v, <<>>, <<>>)
        ELSE IF FeesOverflow(sys.v, net.v)
        THEN DecResult("too big fees: int 64 overflow", ver.v, sys.v, net.v, <<>>, <<>>)
        ELSE IF DuplicateCosigners(cs.v)
        THEN DecResult("transaction cosigners should be unique", ver.v, sys.v, net.v, cs.v, <<>>)
        ELSE IF scr.err = NoErr /\ Len(scr.v) = 0
        THEN DecResult("no script", ver.v, sys.v, net.v, cs.v, scr.v)
        ELSE DecResult(scr.err, ver.v, sys.v, net.v, cs.v, scr.v)

\* Transaction.DecodeBinary: the hashable fields, then the witnesses and the
\* hash, which fails only for a transaction without a script
DecodeBinaryOf(in) ==
    LET h == decodeHashableFields(in)
        w == ReadField(in, h.err, 6, <<>>, <<>>)
    IN  IF h.err # NoErr THEN h
        ELSE IF w.err # NoErr THEN [h EXCEPT !.err = w.err]
        ELSE IF Len(h.tx.Script) = 0
        THEN [h EXCEPT !.err = "failed to serialize hashable data"]
        ELSE h

DecInit ==
    /\ PoolIdle /\ NoCompare /\ Part2Idle /\ Part3Idle
    /\ DsgIdle /\ SrvIdle /\ CnsIdle /\ BrdIdle
    /\ dec = [decoded |-> FALSE, in |-> CHOOSE s \in DecStreams : s.avail = 0,
              res |-> DecResult(NoErr, 0, 0, 0, <<>>, <<>>)]

decRest == <<poolVars, cmpVars, lk, vmc, mst, dsp, fnd, txo, cst, nat, inv, ldb, dcl, mcs,
            dsg, srv, cns, brd>>

\* a fresh Transaction decodes the stream in
TransactionDecodeBinary ==
    /\ ~dec.decoded
    /\ \E in \in DecStreams :
          dec' = [decoded |-> TRUE, in |-> in, res |-> DecodeBinaryOf(in)]
    /\ UNCHANGED decRest

DecNext == TransactionDecodeBinary

DecSpec == DecInit /\ [][DecNext]_vars

Accepted == dec.decoded /\ dec.res.err = NoErr

\* C34: a transaction DecodeBinary accepts has version 0, fees that are not
\* negative and whose sum fits int64, at most MaxCosigners cosigners with
\* pairwise distinct accounts, and a script that is not empty.
C34_AcceptedIsWellFormed ==
    Accepted =>
        LET tx == dec.res.tx
        IN  /\ tx.Version = 0
            /\ tx.SystemFee >= 0 /\ tx.NetworkFee >= 0
            /\ tx.SystemFee + tx.NetworkFee <= MaxInt64
            /\ Len(tx.Cosigners) <= MaxCosigners
            /\ \A i, j \in DOMAIN tx.Cosigners : tx.Cosigners[i] = tx.Cosigners[j] => i = j
            /\ Len(tx.Script) > 0
            /\ tx.SystemFee = ToInt64(dec.in.sysfee) /\ tx.NetworkFee = ToInt64(dec.in.netfee)
            /\ tx.Cosigners = dec.in.cosigners /\ tx.Script = dec.in.script

\* a transaction with both fees positive and the most cosigners was accepted
C34_Witness ==
    /\ Accepted
    /\ dec.res.tx.SystemFee > 0 /\ dec.res.tx.NetworkFee > 0
    /\ Len(dec.res.tx.Cosigners) = MaxCosigners

\* a stream whose fees overflow was refused
C34_OverflowWitness ==
    /\ dec.decoded /\ dec.res.err = "too big fees: int 64 overflow"


\* ------------------------------------------------------------------
\* Part 4d. The Designate native contract
\* ------------------------------------------------------------------

\* the greatest index of a persisting block in the model
MaxBlockIndex == 1
\* the most nodes of a designation (32 in the source)
maxNodeCount == 2

Roles == [StateValidator |-> 4, Oracle |-> 8, Unknown |-> 255]
RoleInputs == {Roles.StateValidator, Roles.Oracle, Roles.Unknown}

isValidRole(r) == r = Roles.Oracle \/ r = Roles.StateValidator

\* the node lists passed to DesignateAsRole: none, one node, two nodes out
\* of order, and one node too many
PubsInputs == {<<>>, <<1>>, <<2, 1>>, [i \in 1..(maxNodeCount + 1) |-> 1]}

\* sort.Sort(pubs)
RECURSIVE SortPubs(_)
SortPubs(pubs) ==
    IF pubs = <<>> THEN <<>>
    ELSE LET i == CHOOSE x \in DOMAIN pubs : \A y \in DOMAIN pubs : pubs[x] <= pubs[y]
             rest == [j \in 1..(Len(pubs) - 1) |-> IF j < i THEN pubs[j] ELSE pubs[j + 1]]
         IN  <<pubs[i]>> \o SortPubs(rest)

\* binary.BigEndian.PutUint32 and Uint32, for the indices of the model
PutUint32(n) == <<0, 0, n \div 256, n % 256>>
Uint32(k) == (k[1] * 256 + k[2]) * 65536 + k[3] * 256 + k[4]

\* the storage key of a designation: the role and the index, big-endian
DesignateKey(r, index) == <<r>> \o PutUint32(index)

\* d.GetStorageItemsWithPrefix(s.ContractID, []byte{byte(r)})
DesignateItems(storage, r) ==
    LET ks == {k \in DOMAIN storage : k[1] = r}
    IN  [rest \in {Tail(k) : k \in ks} |-> storage[<<r>> \o rest]]

NoItem == [found |-> FALSE, bestIndex |-> 0, value |-> <<>>]

\* a variant of the loop that takes the greatest index, beyond the asked one too
BestItemAny(kvs, ord, index) ==
    LET top == CHOOSE k \in DOMAIN kvs : \A o \in DOMAIN kvs : Uint32(o) <= Uint32(k)
    IN  IF DOMAIN kvs = {} THEN NoItem
        ELSE [found |-> TRUE, bestIndex |-> Uint32(top), value |-> kvs[top]]

\* lines 548-557: the loop over kvs, visited in the order ord
RECURSIVE BestItemFrom(_, _, _, _)
BestItemFrom(kvs, ord, index, best) ==
    IF ord = <<>> THEN best
    ELSE LET k == Head(ord)
             siInd == Uint32(k)
             next == IF Len(k) < 4 THEN best
                     ELSE IF (~best.found \/ siInd > best.bestIndex) /\ siInd <= index
                     THEN [found |-> TRUE, bestIndex |-> siInd, value |-> kvs[k]]
                     ELSE best
         IN  BestItemFrom(kvs, Tail(ord), index, next)

BestItem(kvs, ord, index) == BestItemFrom(kvs, ord, index, NoItem)

DsgResult(nodes, height, err) == [nodes |-> nodes, height |-> height, err |-> err]

\* rolesChanged: the flag is unset or true
rolesChanged(s) == s.rolesChangedFlag \in {"nil", "true"}

\* Designate.GetDesignatedByRole from the storage alone, kvs visited in ord
FromStorage(s, r, index, ord) ==
    LET best == BestItem(DesignateItems(s.storage, r), ord, index)
    IN  DsgResult(best.value, best.bestIndex, "nil")

\* Designate.GetDesignatedByRole
GetDesignatedByRoleOf(s, r, index, ord) ==
    IF ~isValidRole(r) THEN DsgResult(<<>>, 0, "ErrInvalidRole")
    ELSE IF r = Roles.Oracle /\ ~rolesChanged(s) /\ s.oracles.set /\ s.oracles.height <= index
    THEN DsgResult(s.oracles.nodes, s.oracles.height, "nil")
    ELSE FromStorage(s, r, index, ord)

\* a variant in which a second designation is not refused
DesignateErrNoCheck(s, r, pubs, witnessed, hasBlock) ==
    IF Len(pubs) = 0 THEN "ErrEmptyNodeList"
    ELSE IF Len(pubs) > maxNodeCount THEN "ErrLargeNodeList"
    ELSE IF ~isValidRole(r) THEN "ErrInvalidRole"
    ELSE IF ~witnessed THEN "ErrInvalidWitness"
    ELSE IF ~hasBlock THEN "ErrNoBlock"
    ELSE "nil"

\* the error of Designate.DesignateAsRole, "nil" when the nodes are stored
DesignateErr(s, r, pubs, witnessed, hasBlock) ==
    IF Len(pubs) = 0 THEN "ErrEmptyNodeList"
    ELSE IF Len(pubs) > maxNodeCount THEN "ErrLargeNodeList"
    ELSE IF ~isValidRole(r) THEN "ErrInvalidRole"
    ELSE IF ~witnessed THEN "ErrInvalidWitness"
    ELSE IF ~hasBlock THEN "ErrNoBlock"
    ELSE IF DesignateKey(r, s.block + 1) \in DOMAIN s.storage THEN "ErrAlreadyDesignated"
    ELSE "nil"

MaxUint32 == 65536 * 32767 + 65535

DsgInit ==
    /\ PoolIdle /\ NoCompare /\ Part2Idle /\ Part3Idle
    /\ DecIdle /\ SrvIdle /\ CnsIdle /\ BrdIdle
    /\ dsg = [storage |-> EmptyMap, rolesChangedFlag |-> "nil",
              oracles |-> [set |-> FALSE, nodes |-> <<>>, height |-> 0],
              block |-> 0, twice |-> FALSE,
              last |-> [op |-> "none", r |-> 0, index |-> 0, existed |-> FALSE,
                        same |-> TRUE, valid |-> FALSE, cached |-> FALSE,
                        res |-> DsgResult(<<>>, 0, "nil")]]

dsgRest == <<poolVars, cmpVars, lk, vmc, mst, dsp, fnd, txo, cst, nat, inv, ldb, dcl, mcs,
            dec, srv, cns, brd>>

\* ic.DAO.PutStorageItem
DsgPut(storage, key, value) ==
    [k \in DOMAIN storage \cup {key} |-> IF k = key THEN value ELSE storage[k]]

\* Designate.DesignateAsRole in the persisting block dsg.block
DesignateAsRole(r, pubs, witnessed, hasBlock) ==
    /\ dsg.block <= MaxBlockIndex
    /\ LET err == DesignateErr(dsg, r, pubs, witnessed, hasBlock)
           key == DesignateKey(r, dsg.block + 1)
           storage == IF err = "nil" THEN DsgPut(dsg.storage, key, SortPubs(pubs))
                      ELSE dsg.storage
       IN  dsg' = [dsg EXCEPT
                     !.storage = storage,
                     !.rolesChangedFlag = IF err = "nil" THEN "true" ELSE @,
                     !.twice = @ \/ (err = "nil" /\ key \in DOMAIN dsg.storage),
                     !.last = [op |-> "DesignateAsRole", r |-> r, index |-> dsg.block + 1,
                               existed |-> isValidRole(r) /\ key \in DOMAIN dsg.storage,
                               same |-> storage = dsg.storage,
                               valid |-> Len(pubs) \in 1..maxNodeCount /\ witnessed /\ hasBlock,
                               cached |-> FALSE,
                               res |-> DsgResult(<<>>, 0, err)]]
    /\ UNCHANGED dsgRest

\* Designate.OnPersistEnd at the end of the persisting block; the next block
\* becomes the persisting one
OnPersistEnd ==
    /\ dsg.block <= MaxBlockIndex
    /\ \E ord \in Orders(DOMAIN DesignateItems(dsg.storage, Roles.Oracle)) :
          LET res == GetDesignatedByRoleOf(dsg, Roles.Oracle, MaxUint32, ord)
          IN  dsg' = [dsg EXCEPT
                        !.oracles = IF rolesChanged(dsg)
                                    THEN [set |-> TRUE, nodes |-> res.nodes, height |-> res.height]
                                    ELSE @,
                        !.rolesChangedFlag = IF rolesChanged(dsg) THEN "false" ELSE @,
                        !.block = @ + 1,
                        !.last = [op |-> "OnPersistEnd", r |-> 0, index |-> 0, existed |-> FALSE,
                                  same |-> TRUE, valid |-> FALSE, cached |-> FALSE,
                        res |-> DsgResult(<<>>, 0, "nil")]]
    /\ UNCHANGED dsgRest

\* Designate.GetDesignatedByRole
GetDesignatedByRole(r, index) ==
    /\ \E ord \in Orders(DOMAIN DesignateItems(dsg.storage, r)) :
          dsg' = [dsg EXCEPT
                    !.last = [op |-> "GetDesignatedByRole", r |-> r, index |-> index,
                              existed |-> FALSE, same |-> TRUE, valid |-> FALSE,
                              cached |-> r = Roles.Oracle /\ ~rolesChanged(dsg)
                                            /\ dsg.oracles.set /\ dsg.oracles.height <= index,
                              res |-> GetDesignatedByRoleOf(dsg, r, index, ord)]]
    /\ UNCHANGED dsgRest

DsgNext ==
    \/ \E r \in RoleInputs, pubs \in PubsInputs, witnessed \in BOOLEAN, hasBlock \in BOOLEAN :
          DesignateAsRole(r, pubs, witnessed, hasBlock)
    \/ OnPersistEnd
    \/ \E r \in RoleInputs, index \in 0..(MaxBlockIndex + 2) : GetDesignatedByRole(r, index)

DsgSpec == DsgInit /\ [][DsgNext]_vars

IndicesUpTo(r, index) ==
    {i \in 1..(MaxBlockIndex + 1) : i <= index /\ DesignateKey(r, i) \in DOMAIN dsg.storage}

\* the designation with the greatest stored index not above index
Designated(r, index) ==
    IF IndicesUpTo(r, index) = {} THEN DsgResult(<<>>, 0, "nil")
    ELSE LET top == CHOOSE i \in IndicesUpTo(r, index) : \A j \in IndicesUpTo(r, index) : j <= i
         IN  DsgResult(dsg.storage[DesignateKey(r, top)], top, "nil")

\* C36: GetDesignatedByRole gives the nodes and the index of the designation
\* with the greatest stored index not above the asked one, the empty list
\* and 0 when there is none, from the Oracle cache as from the storage.
C36_GreatestIndexNotAbove ==
    (dsg.last.op = "GetDesignatedByRole" /\ isValidRole(dsg.last.r)) =>
        /\ dsg.last.res = Designated(dsg.last.r, dsg.last.index)
        /\ \A ord \in Orders(DOMAIN DesignateItems(dsg.storage, dsg.last.r)) :
               FromStorage(dsg, dsg.last.r, dsg.last.index, ord) = dsg.last.res

\* the cache answered while the storage held two Oracle designations
C36_Witness ==
    /\ dsg.last.op = "GetDesignatedByRole" /\ dsg.last.cached
    /\ Cardinality(IndicesUpTo(Roles.Oracle, MaxBlockIndex + 1)) = 2
    /\ dsg.last.res.height = 2

\* the storage answered with the older of two designations
C36_OlderWitness ==
    /\ dsg.last.op = "GetDesignatedByRole" /\ ~dsg.last.cached
    /\ Cardinality(IndicesUpTo(dsg.last.r, MaxBlockIndex + 1)) = 2
    /\ dsg.last.res.height = 1


\* ------------------------------------------------------------------
\* Part 4e. contractUpdate and the storage items of the contract
\* ------------------------------------------------------------------

\* the last call was a contractUpdate that succeeded on a contract with storage
UpdatedWithStorage ==
    /\ cst.last.op = "contractUpdate"
    /\ cst.last.err = "nil"
    /\ cst.last.pre.contracts[cst.last.cur].HasStorage

\* the script hash of the contract after the update
UpdatedHash == IF cst.last.nilScript THEN cst.last.cur ELSE ScriptHash(cst.last.script)

\* C37: after a successful contractUpdate of a contract with storage, every
\* storage item the contract had is stored under the script hash of the new
\* contract with the same key and value.
C37_ItemsFollowTheContract ==
    UpdatedWithStorage =>
        \A k \in StorageItemKeys :
            <<cst.last.cur, k>> \in DOMAIN cst.last.pre.items =>
                /\ <<UpdatedHash, k>> \in DOMAIN cst.d.items
                /\ cst.d.items[<<UpdatedHash, k>>].Value
                       = cst.last.pre.items[<<cst.last.cur, k>>].Value

\* what the code does when the script is replaced: the items stay under the
\* script hash of the old contract, no longer constant
C37_ItemsStayUnderOldHash ==
    (UpdatedWithStorage /\ ~cst.last.nilScript) =>
        \A k \in StorageItemKeys :
            <<cst.last.cur, k>> \in DOMAIN cst.last.pre.items =>
                /\ <<cst.last.cur, k>> \in DOMAIN cst.d.items
                /\ cst.d.items[<<cst.last.cur, k>>].Value
                       = cst.last.pre.items[<<cst.last.cur, k>>].Value
                /\ ~cst.d.items[<<cst.last.cur, k>>].IsConst


\* ------------------------------------------------------------------
\* Part 4f. Server.handleMessage
\* ------------------------------------------------------------------

NumPeers == 2
ServerPeers == 1..NumPeers

\* the magic of the server and the one of another network
Magics == [Server |-> 1, Other |-> 2]
\* the ID of the server; a version with this nonce comes from the server itself
ServerID == 1
\* the nonces of the versions received: the server's own and another node's
Nonces == {ServerID, ServerID + 1}

\* peers 1 and 2 connect from one address, the next two from another
PeerAddr(p) == (p + 1) \div 2

HandshakeCommands == {"version", "verack"}
ProtocolCommands ==
    {"addr", "getaddr", "getblocks", "getdata", "getheaders", "headers", "inv",
     "block", "consensus", "tx", "ping", "pong"}
Commands == HandshakeCommands \cup ProtocolCommands \cup {"unknown"}

\* the commands whose payload is an Inventory
InventoryCommands == {"inv", "getdata"}

\* the messages received: the nonce counts in a version, the validity of
\* the inventory in a message that carries one
\* the commands received in the model: those of the handshake, some of the
\* protocol, with and without an inventory, and an unknown one
ReceivedCommands == HandshakeCommands \cup {"addr", "inv", "getdata", "headers", "block", "unknown"}

SrvMessages ==
    {m \in [Magic : {Magics.Server, Magics.Other}, Command : ReceivedCommands,
            Nonce : Nonces, invValid : BOOLEAN] :
        /\ m.Command # "version" => m.Nonce = ServerID
        /\ m.Command \notin InventoryCommands => m.invValid}

\* the outcomes of the calls of the peer: all succeed, or one of them fails
PeerOutcomes(cmd) ==
    IF cmd = "version" THEN {<<TRUE, TRUE>>, <<FALSE, TRUE>>, <<TRUE, FALSE>>}
    ELSE IF cmd = "verack" THEN {<<TRUE, TRUE>>, <<TRUE, FALSE>>}
    ELSE {<<TRUE, TRUE>>}

\* the handler a result names: one of the handshake, or one of the protocol
HandlerKind(handler) ==
    IF handler \in ProtocolCommands THEN "protocol" ELSE handler

\* the kind of a command
CommandKind(cmd) == IF cmd \in HandshakeCommands THEN cmd ELSE "other"

\* the result of handleMessage: the error (errNil for none), the handler that
\* ran, the peers and whether consensus.Start was called
SrvResult(err, handler, peers, started) ==
    [err |-> err, handler |-> handler, peers |-> peers, started |-> started]

errNil == "nil"

\* Server.HandshakedPeersCount
HandshakedPeersCount(peers, registered) ==
    Cardinality({p \in registered : peers[p].handshaked})

\* a variant of tryStartConsensus that does not look at the flag
tryStartAgain(s, peers) ==
    IF ~s.wallet THEN FALSE
    ELSE HandshakedPeersCount(peers, s.registered) >= s.minPeers

\* Server.tryStartConsensus run without interruption: TRUE when it calls
\* consensus.Start
tryStartConsensus(s, peers) ==
    IF ~s.wallet \/ s.connected THEN FALSE
    ELSE HandshakedPeersCount(peers, s.registered) >= s.minPeers

\* Server.handleVersionCmd; hvOk and ackOk are the results of the peer's
\* HandleVersion and SendVersionAck
handleVersionCmd(s, p, nonce, hvOk, ackOk) ==
    LET peers == [s.peers EXCEPT ![p].version = nonce]
    IN  IF ~hvOk THEN SrvResult("HandleVersion", "handleVersionCmd", s.peers, FALSE)
        ELSE IF ServerID = nonce
        THEN SrvResult("errIdenticalID", "handleVersionCmd", peers, FALSE)
        ELSE IF \E peer \in s.registered \ {p} :
                    /\ peers[peer].version # 0
                    /\ peers[peer].version = nonce
                    /\ PeerAddr(peer) = PeerAddr(p)
        THEN SrvResult("errAlreadyConnected", "handleVersionCmd", peers, FALSE)
        ELSE IF ~ackOk THEN SrvResult("SendVersionAck", "handleVersionCmd", peers, FALSE)
        ELSE SrvResult(errNil, "handleVersionCmd", peers, FALSE)

\* a variant of the dispatch that looks at the handshake before the magic
handleMessageNoMagic(s, p, msg, hvOk, ackOk) ==
    IF s.peers[p].handshaked
    THEN SrvResult(errNil, msg.Command, s.peers, FALSE)
    ELSE IF msg.Command = "version" THEN handleVersionCmd(s, p, msg.Nonce, hvOk, ackOk)
    ELSE SrvResult("during handshake", "none", s.peers, FALSE)

\* Server.handleMessage for the message msg of the peer p
handleMessage(s, p, msg, hvOk, ackOk) ==
    IF msg.Magic # Magics.Server THEN SrvResult("errInvalidNetwork", "none", s.peers, FALSE)
    ELSE IF s.peers[p].handshaked
    THEN IF msg.Command \in InventoryCommands /\ ~msg.invValid
         THEN SrvResult("errInvalidInvType", "none", s.peers, FALSE)
         ELSE IF msg.Command \in ProtocolCommands
         THEN SrvResult(errNil, msg.Command, s.peers, FALSE)
         ELSE IF msg.Command \in HandshakeCommands
         THEN SrvResult("after the handshake", "none", s.peers, FALSE)
         ELSE SrvResult(errNil, "none", s.peers, FALSE)
    ELSE IF msg.Command = "version" THEN handleVersionCmd(s, p, msg.Nonce, hvOk, ackOk)
    ELSE IF msg.Command = "verack"
    THEN IF ~ackOk \/ s.peers[p].version = 0
         THEN SrvResult("HandleVersionAck", "HandleVersionAck", s.peers, FALSE)
         ELSE LET peers == [s.peers EXCEPT ![p].handshaked = TRUE]
              IN  SrvResult(errNil, "HandleVersionAck", peers, tryStartConsensus(s, peers))
    ELSE SrvResult("during handshake", "none", s.peers, FALSE)

NewPeer == [version |-> 0, handshaked |-> FALSE]

SrvInit ==
    /\ PoolIdle /\ NoCompare /\ Part2Idle /\ Part3Idle
    /\ DecIdle /\ DsgIdle /\ CnsIdle /\ BrdIdle
    /\ \E wallet \in BOOLEAN, minPeers \in {1, NumPeers} :
          srv = [wallet |-> wallet, minPeers |-> minPeers, connected |-> FALSE, starts |-> 0,
                 registered |-> {}, peers |-> [p \in ServerPeers |-> NewPeer],
                 last |-> [op |-> "none", msg |-> "none", magicOk |-> TRUE,
                           handshaked |-> FALSE, err |-> errNil, handler |-> "none",
                           same |-> TRUE]]

srvRest == <<poolVars, cmpVars, lk, vmc, mst, dsp, fnd, txo, cst, nat, inv, ldb, dcl, mcs,
            dec, dsg, cns, brd>>

\* the run loop takes a new connection from the register channel
RegisterPeer(p) ==
    /\ p \notin srv.registered
    /\ srv' = [srv EXCEPT !.registered = @ \cup {p}, !.peers[p] = NewPeer]
    /\ UNCHANGED srvRest

\* the run loop takes a dropped peer from the unregister channel
UnregisterPeer(p) ==
    /\ p \in srv.registered
    /\ srv' = [srv EXCEPT !.registered = @ \ {p}, !.peers[p] = NewPeer]
    /\ UNCHANGED srvRest

\* a message of a connected peer is handled
HandleMessage(p, msg, hvOk, ackOk) ==
    /\ p \in srv.registered
    /\ LET r == handleMessage(srv, p, msg, hvOk, ackOk)
       IN  srv' = [srv EXCEPT
                     !.peers = r.peers,
                     !.connected = @ \/ r.started,
                     !.starts = IF r.started /\ @ < 2 THEN @ + 1 ELSE @,
                     !.last = [op |-> "handleMessage", msg |-> CommandKind(msg.Command),
                               magicOk |-> msg.Magic = Magics.Server,
                               handshaked |-> srv.peers[p].handshaked,
                               err |-> r.err, handler |-> HandlerKind(r.handler),
                               same |-> r.peers = srv.peers /\ ~r.started]]
    /\ UNCHANGED srvRest

SrvNext ==
    \/ \E p \in ServerPeers : RegisterPeer(p)
    \/ \E p \in ServerPeers : UnregisterPeer(p)
    \/ \E p \in ServerPeers, msg \in SrvMessages :
          \E ok \in PeerOutcomes(msg.Command) : HandleMessage(p, msg, ok[1], ok[2])

SrvSpec == SrvInit /\ [][SrvNext]_vars

Handled == srv.last.op = "handleMessage"

\* C38: a message with another magic is refused with errInvalidNetwork
\* whatever the peer and the command; before the handshake only version and
\* verack reach a handler and every other command is an error that changes
\* nothing; after the handshake version and verack are errors that change
\* nothing.
C38_HandshakeGate ==
    Handled =>
        /\ ~srv.last.magicOk =>
               srv.last.err = "errInvalidNetwork" /\ srv.last.handler = "none" /\ srv.last.same
        /\ (srv.last.magicOk /\ ~srv.last.handshaked) =>
               IF srv.last.msg = "version" THEN srv.last.handler = "handleVersionCmd"
               ELSE IF srv.last.msg = "verack" THEN srv.last.handler = "HandleVersionAck"
               ELSE srv.last.err # errNil /\ srv.last.handler = "none" /\ srv.last.same
        /\ (srv.last.magicOk /\ srv.last.handshaked /\ srv.last.msg \in HandshakeCommands) =>
               srv.last.err # errNil /\ srv.last.handler = "none" /\ srv.last.same

\* a peer that completed the handshake sent a version with the right magic
C38_Witness ==
    /\ Handled /\ srv.last.magicOk /\ srv.last.handshaked
    /\ srv.last.msg = "version" /\ srv.last.err = "after the handshake"

\* a peer sent a block before it completed the handshake
C38_EarlyWitness ==
    /\ Handled /\ srv.last.magicOk /\ ~srv.last.handshaked
    /\ srv.last.msg = "other" /\ srv.last.err = "during handshake"

\* a peer that completed the handshake sent a message of another network
C38_MagicWitness ==
    /\ Handled /\ ~srv.last.magicOk /\ srv.last.handshaked


\* ------------------------------------------------------------------
\* Part 4g. Server.tryStartConsensus called from several handlers
\* ------------------------------------------------------------------

NumHandlers == 2
Handlers == 1..NumHandlers

\* a variant of the swap that succeeds whatever the flag holds
CASAlways(connected) == TRUE

\* s.connected.CAS(false, true): it succeeds when the flag is false
CAS(connected) == ~connected

CnsInit ==
    /\ PoolIdle /\ NoCompare /\ Part2Idle /\ Part3Idle
    /\ DecIdle /\ DsgIdle /\ SrvIdle /\ BrdIdle
    /\ \E wallet \in BOOLEAN, minPeers \in 0..NumPeers :
          cns = [wallet |-> wallet, minPeers |-> minPeers, connected |-> FALSE,
                 starts |-> 0, handshaked |-> {}, ever |-> {}, lost |-> FALSE,
                 pc |-> [t \in Handlers |-> "return"]]

cnsRest == <<poolVars, cmpVars, lk, vmc, mst, dsp, fnd, txo, cst, nat, inv, ldb, dcl, mcs,
            dec, dsg, srv, brd>>

\* a peer among s.peers completes the handshake
PeerHandshaked(p) ==
    /\ p \notin cns.handshaked
    /\ cns' = [cns EXCEPT !.handshaked = @ \cup {p}, !.ever = @ \cup {p}]
    /\ UNCHANGED cnsRest

\* a peer that completed the handshake is dropped from s.peers
PeerDropped(p) ==
    /\ p \in cns.handshaked
    /\ cns' = [cns EXCEPT !.handshaked = @ \ {p}]
    /\ UNCHANGED cnsRest

\* line 277: the handler enters tryStartConsensus and returns at once
\* without a wallet or when the flag is set
TryEnter(t) ==
    /\ cns.pc[t] = "return"
    /\ cns.wallet /\ ~cns.connected
    /\ cns' = [cns EXCEPT !.pc[t] = "count"]
    /\ UNCHANGED cnsRest

\* line 281: HandshakedPeersCount under the read lock, compared with MinPeers
TryCount(t) ==
    /\ cns.pc[t] = "count"
    /\ cns' = [cns EXCEPT !.pc[t] = IF Cardinality(cns.handshaked) >= cns.minPeers
                                    THEN "cas" ELSE "return"]
    /\ UNCHANGED cnsRest

\* lines 283-285: the swap, and consensus.Start when it succeeded
TryCAS(t) ==
    /\ cns.pc[t] = "cas"
    /\ cns' = [cns EXCEPT !.pc[t] = "return",
                          !.connected = TRUE,
                          !.starts = IF CAS(cns.connected) /\ @ < 2 THEN @ + 1 ELSE @,
                          !.lost = @ \/ ~CAS(cns.connected)]
    /\ UNCHANGED cnsRest

CnsNext ==
    \/ \E p \in ServerPeers : PeerHandshaked(p)
    \/ \E p \in ServerPeers : PeerDropped(p)
    \/ \E t \in Handlers : TryEnter(t)
    \/ \E t \in Handlers : TryCount(t)
    \/ \E t \in Handlers : TryCAS(t)

CnsSpec == CnsInit /\ [][CnsNext]_vars

\* C39: consensus.Start is called at most once, however the handlers that
\* run tryStartConsensus interleave, and only with a wallet and when at
\* least MinPeers peers have completed the handshake.
C39_StartedAtMostOnce ==
    /\ cns.starts <= 1
    /\ cns.starts = 1 => (cns.wallet /\ Cardinality(cns.ever) >= cns.minPeers /\ cns.connected)
    /\ cns.connected => cns.starts = 1

\* two handlers reached the swap and one of them lost it
C39_Witness ==
    /\ cns.starts = 1 /\ cns.lost /\ cns.minPeers = NumPeers

\* consensus was started although a peer was dropped after the count
C39_DroppedWitness ==
    /\ cns.starts = 1 /\ Cardinality(cns.handshaked) < cns.minPeers


\* ------------------------------------------------------------------
\* Part 4h. util.BinReader after an error
\* ------------------------------------------------------------------

\* the most bytes the underlying reader holds
MaxBufLen == 3
\* the bytes of the model: a small number and the markers 0xfd and 0xfe
ReaderBytes == {1, 253, 254}
ReaderBufs == UNION {[1..n -> ReaderBytes] : n \in 0..MaxBufLen}

\* binary.LittleEndian and binary.BigEndian on the bytes read
RECURSIVE DecodeLE(_)
DecodeLE(bs) == IF bs = <<>> THEN 0 ELSE Head(bs) + 256 * DecodeLE(Tail(bs))
RECURSIVE DecodeBE(_)
DecodeBE(bs) == IF bs = <<>> THEN 0 ELSE DecodeBE(SubSeq(bs, 1, Len(bs) - 1)) * 256 + bs[Len(bs)]

\* binary.Read of n bytes from the reader: io.ReadFull gives EOF when
\* nothing is left, ErrUnexpectedEOF after a part, else the bytes
BinaryRead(buf, n) ==
    IF n = 0 THEN [err |-> "nil", bytes |-> <<>>, buf |-> buf]
    ELSE IF Len(buf) = 0 THEN [err |-> "EOF", bytes |-> <<>>, buf |-> buf]
    ELSE IF Len(buf) < n THEN [err |-> "ErrUnexpectedEOF", bytes |-> <<>>, buf |-> <<>>]
    ELSE [err |-> "nil", bytes |-> SubSeq(buf, 1, n), buf |-> SubSeq(buf, n + 1, Len(buf))]

\* the reader after a call, the value the call gives and whether the call
\* read from the underlying reader
BrdResult(buf, err, v, read) == [buf |-> buf, Err |-> err, v |-> v, read |-> read]

\* BinReader.ReadLE and ReadBE into a destination of two bytes that holds v
ReadFixed(r, v, bigEndian) ==
    IF r.Err # "nil" THEN BrdResult(r.buf, r.Err, v, FALSE)
    ELSE LET b == BinaryRead(r.buf, 2)
         IN  BrdResult(b.buf, b.err,
                       IF b.err # "nil" THEN v
                       ELSE IF bigEndian THEN DecodeBE(b.bytes) ELSE DecodeLE(b.bytes),
                       TRUE)

\* the width of the integer that follows the first byte of ReadVarUint
VarUintWidth(b) == IF b = 253 THEN 2 ELSE IF b = 254 THEN 4 ELSE IF b = 255 THEN 8 ELSE 0

\* BinReader.ReadVarUint: no test of Err before the reads; each read
\* assigns Err
ReadVarUintOf(r) ==
    LET first == BinaryRead(r.buf, 1)
        b == IF first.err = "nil" THEN first.bytes[1] ELSE 0
        more == BinaryRead(first.buf, VarUintWidth(b))
    IN  IF VarUintWidth(b) = 0 THEN BrdResult(first.buf, first.err, b, TRUE)
        ELSE BrdResult(more.buf, more.err,
                       IF more.err = "nil" THEN DecodeLE(more.bytes) ELSE 0, TRUE)

\* BinReader.ReadBytes: the length by ReadVarUint, then ReadLE into a slice
\* of that length; the value is the length of the slice and its content
\* (nothing stands for all zero)
ReadBytesOf(r) ==
    LET n == ReadVarUintOf(r)
        b == BinaryRead(n.buf, n.v)
    IN  IF n.Err # "nil" THEN BrdResult(n.buf, n.Err, [len |-> n.v, data |-> <<>>], TRUE)
        ELSE BrdResult(b.buf, b.err, [len |-> n.v, data |-> b.bytes], TRUE)

BrdInit ==
    /\ PoolIdle /\ NoCompare /\ Part2Idle /\ Part3Idle
    /\ DecIdle /\ DsgIdle /\ SrvIdle /\ CnsIdle
    /\ \E buf \in ReaderBufs :
          brd = [buf |-> buf, Err |-> "nil", i |-> 0,
                 last |-> [op |-> "none", hadErr |-> FALSE, read |-> FALSE,
                           same |-> TRUE, zero |-> TRUE]]

brdRest == <<poolVars, cmpVars, lk, vmc, mst, dsp, fnd, txo, cst, nat, inv, ldb, dcl, mcs,
            dec, dsg, srv, cns>>

\* the reader and the record of a call: whether Err was set before it,
\* whether it read, whether the destination is as before, whether the value
\* returned is the zero value (a call with a destination returns nothing)
BrdAfter(op, res, i, zero) ==
    [buf |-> res.buf, Err |-> res.Err, i |-> i,
     last |-> [op |-> op, hadErr |-> brd.Err # "nil", read |-> res.read,
               same |-> i = brd.i, zero |-> zero]]

\* the caller sets Err itself, as the decoders do for a value they refuse
SetErr ==
    /\ brd.Err = "nil"
    /\ brd' = [brd EXCEPT !.Err = "refused", !.last.op = "SetErr"]
    /\ UNCHANGED brdRest

BinReaderReadLE ==
    /\ LET res == ReadFixed(brd, brd.i, FALSE)
       IN  brd' = BrdAfter("ReadLE", res, res.v, TRUE)
    /\ UNCHANGED brdRest

BinReaderReadBE ==
    /\ LET res == ReadFixed(brd, brd.i, TRUE)
       IN  brd' = BrdAfter("ReadBE", res, res.v, TRUE)
    /\ UNCHANGED brdRest

BinReaderReadVarUint ==
    /\ LET res == ReadVarUintOf(brd)
       IN  brd' = BrdAfter("ReadVarUint", res, brd.i, res.v = 0)
    /\ UNCHANGED brdRest

BinReaderReadBytes ==
    /\ LET res == ReadBytesOf(brd)
       IN  brd' = BrdAfter("ReadBytes", res, brd.i, res.v.len = 0)
    /\ UNCHANGED brdRest

\* ReadString: ReadBytes, cast to a string
BinReaderReadString ==
    /\ LET res == ReadBytesOf(brd)
       IN  brd' = BrdAfter("ReadString", res, brd.i, res.v.len = 0)
    /\ UNCHANGED brdRest

BrdNext ==
    \/ SetErr
    \/ BinReaderReadLE
    \/ BinReaderReadBE
    \/ BinReaderReadVarUint
    \/ BinReaderReadBytes
    \/ BinReaderReadString

BrdSpec == BrdInit /\ [][BrdNext]_vars

ReadOps == {"ReadLE", "ReadBE", "ReadVarUint", "ReadBytes", "ReadString"}

\* C40: a read called while Err is set leaves Err set, reads nothing from
\* the underlying reader, leaves the destination as it was and returns the
\* zero value.
C40_ErrIsSticky ==
    (brd.last.op \in ReadOps /\ brd.last.hadErr) =>
        /\ brd.Err # "nil"
        /\ ~brd.last.read
        /\ brd.last.same
        /\ brd.last.zero

\* what holds of the code: ReadLE and ReadBE do nothing once Err is set
C40_FixedReadsAreSticky ==
    (brd.last.op \in {"ReadLE", "ReadBE"} /\ brd.last.hadErr) =>
        /\ brd.Err # "nil"
        /\ ~brd.last.read
        /\ brd.last.same

====
